---- MODULE Spec2Model ----
(***************************************************************************)
(* Verification model of the assessment-taking screen (CodeEditor): the    *)
(* client-side execution engine, the score aggregation, the timed session  *)
(* with its local-storage cache, the submission writer and the review      *)
(* builder.                                                                *)
(*                                                                         *)
(* JavaScript strings are sequences of tokens (a token is one character or *)
(* one literal chunk of a template string).  null and undefined are the    *)
(* one-token sequences Null and Undefined.  A nullable object is a         *)
(* sequence of length 0 (null) or 1 (the object).                          *)
(***************************************************************************)
EXTENDS Integers, Sequences, FiniteSets, TLC

Null == <<"<null>">>
Undefined == <<"<undefined>">>
None == <<>>
Some(x) == <<x>>

(***************************************************************************)
(* Number arithmetic: IEEE-754 binary64.  A positive double is             *)
(* [m |-> <<top, l1, l2, l3, l4>>, exp |-> e]: a 53-bit significand held   *)
(* as the leading bit and four 13-bit limbs, of value                      *)
(* (top.l1 l2 l3 l4 in base 2^13) * 2^e with top = 1.                      *)
(***************************************************************************)
LimbBits == 13
LimbBase == 8192

RECURSIVE Pow2(_)
Pow2(n) == IF n <= 0 THEN 1 ELSE 2 * Pow2(n - 1)

RECURSIVE NormShift(_, _)
NormShift(p, t) == IF p >= t THEN 0 ELSE 1 + NormShift(2 * p, t)

RECURSIVE BitLen(_)
BitLen(n) == IF n = 0 THEN 0 ELSE 1 + BitLen(n \div 2)

\* significand + 1 unit in the last place (carry into the leading limb)
RECURSIVE IncLimbs(_)
IncLimbs(m) ==
  IF Len(m) = 1 THEN <<m[1] + 1>>
  ELSE IF m[Len(m)] + 1 < LimbBase THEN SubSeq(m, 1, Len(m) - 1) \o <<m[Len(m)] + 1>>
       ELSE IncLimbs(SubSeq(m, 1, Len(m) - 1)) \o <<0>>

\* round to nearest, ties to even, then renormalise
RoundLimbs(m, exp, up) ==
  IF ~up THEN [m |-> m, exp |-> exp]
  ELSE LET inc == IncLimbs(m)
       IN  IF inc[1] = 2 THEN [m |-> <<1, 0, 0, 0, 0>>, exp |-> exp + 1]
           ELSE [m |-> inc, exp |-> exp]

RECURSIVE DenShift(_, _)
DenShift(p, t) == IF 2 * t > p THEN 0 ELSE 1 + DenShift(p, 2 * t)

\* p / t for integers p > 0, t > 0 (below 2^13)
FDiv(p, t) ==
  LET k  == NormShift(p, t)
      e  == DenShift(p, t)
      d  == t * Pow2(e)
      r0 == (p * Pow2(k)) - d
      l1 == (r0 * LimbBase) \div d
      r1 == (r0 * LimbBase) % d
      l2 == (r1 * LimbBase) \div d
      r2 == (r1 * LimbBase) % d
      l3 == (r2 * LimbBase) \div d
      r3 == (r2 * LimbBase) % d
      l4 == (r3 * LimbBase) \div d
      r4 == (r3 * LimbBase) % d
      up == (2 * r4 > d) \/ (2 * r4 = d /\ (l4 % 2) = 1)
  IN  RoundLimbs(<<1, l1, l2, l3, l4>>, e - k, up)

\* limbs * c with carry, least significant limb first; the leading limb absorbs the carry
RECURSIVE MulLimbs(_, _, _)
MulLimbs(m, c, carry) ==
  IF Len(m) = 1 THEN <<(m[1] * c) + carry>>
  ELSE LET v == (m[Len(m)] * c) + carry
       IN  MulLimbs(SubSeq(m, 1, Len(m) - 1), c, v \div LimbBase) \o <<v % LimbBase>>

\* limbs shifted right by s bits, 0 <= s < LimbBits
ShiftRight(m, s) ==
  [j \in 1..Len(m) |->
     IF j = 1 THEN m[1] \div Pow2(s)
     ELSE ((m[j - 1] % Pow2(s)) * Pow2(LimbBits - s)) + (m[j] \div Pow2(s))]

\* x * c for a positive double x and an integer 1 <= c < 2^13
FMul(x, c) ==
  LET prod    == MulLimbs(x.m, c, 0)
      s       == BitLen(prod[1]) - 1
      kept    == ShiftRight(prod, s)
      dropped == prod[Len(prod)] % Pow2(s)
      guard   == s > 0 /\ dropped >= Pow2(s - 1)
      sticky  == s > 0 /\ (dropped % Pow2(s - 1)) # 0
      up      == guard /\ (sticky \/ (kept[Len(kept)] % 2) = 1)
  IN  RoundLimbs(kept, x.exp + s, up)

\* Math.round of a positive double below 2^13: nearest integer, ties upwards
MathRound(x) ==
  LET hi == (x.m[1] * LimbBase) + x.m[2]
  IN  IF x.exp < 0 - 1 THEN 0
      ELSE (hi \div Pow2(LimbBits - x.exp)) + ((hi \div Pow2(LimbBits - 1 - x.exp)) % 2)

(***************************************************************************)
(* Strings                                                                 *)
(***************************************************************************)
IsWhitespace(c) == c \in {" ", "\n"}

RECURSIVE TrimStart(_)
TrimStart(s) ==
  IF Len(s) > 0 /\ IsWhitespace(s[1]) THEN TrimStart(SubSeq(s, 2, Len(s))) ELSE s

RECURSIVE TrimEnd(_)
TrimEnd(s) ==
  IF Len(s) > 0 /\ IsWhitespace(s[Len(s)]) THEN TrimEnd(SubSeq(s, 1, Len(s) - 1)) ELSE s

\* String.prototype.trim
Trim(s) == TrimEnd(TrimStart(s))

\* (x || d) for a string-or-missing x
OrStr(x, d) == IF x = Undefined \/ x = Null \/ x = <<>> THEN d ELSE x

\* JSON.stringify of an array of row objects; a row is one token
RECURSIVE JoinRows(_)
JoinRows(rows) ==
  IF Len(rows) = 0 THEN <<>>
  ELSE IF Len(rows) = 1 THEN <<rows[1]>>
       ELSE <<rows[1], ",">> \o JoinRows(SubSeq(rows, 2, Len(rows)))

JSONStringifyRows(rows) == <<"[">> \o JoinRows(rows) \o <<"]">>

(***************************************************************************)
(* CodeExecutionEngine                                                     *)
(***************************************************************************)
ApiFailure(t, prefix, message) ==
  [input |-> OrStr(t.input, <<>>), expected |-> t.expectedOutput, actual |-> <<>>,
   passed |-> FALSE, executionTime |-> 0, error |-> <<prefix>> \o message]

\* one iteration of the loop of executePython, on the response of the execution API
PythonCaseNoExitCheckAs(t, resp) ==
  IF resp.throws THEN ApiFailure(t, "API Error: ", resp.message)
  ELSE LET stdout   == OrStr(resp.stdout, <<>>)
           actual   == Trim(stdout)
           expected == Trim(OrStr(t.expectedOutput, <<>>))
       IN  [input |-> OrStr(t.input, <<>>), expected |-> t.expectedOutput, actual |-> actual,
            passed |-> (actual = expected), executionTime |-> resp.ms,
            error |-> IF actual = expected THEN Null
                      ELSE <<"Expected: \"">> \o expected \o <<"\", Got: \"">> \o actual \o <<"\"">>]

PythonCase(t, resp) ==
  IF resp.throws THEN ApiFailure(t, "API Error: ", resp.message)
  ELSE LET stdout   == OrStr(resp.stdout, <<>>)
           stderr   == OrStr(resp.stderr, <<>>)
           codeExit == IF resp.code # Undefined THEN resp.code ELSE <<"1">>
           actual   == Trim(stdout)
           expected == Trim(OrStr(t.expectedOutput, <<>>))
           base     == [input |-> OrStr(t.input, <<>>), expected |-> t.expectedOutput,
                        actual |-> Trim(stdout), passed |-> FALSE,
                        executionTime |-> resp.ms, error |-> Null]
       IN  IF codeExit = <<"0">>
           THEN [base EXCEPT !.passed = (actual = expected),
                             !.error = IF actual = expected THEN Null
                                       ELSE <<"Expected: \"">> \o expected \o <<"\", Got: \"">>
                                            \o actual \o <<"\"">>]
           ELSE [base EXCEPT !.error = <<"Runtime Error: ">> \o OrStr(stderr, <<"Unknown error">>)]

\* one iteration of the loop of executeJava
JavaCaseNoCompileCheckAs(t, resp) ==
  IF resp.throws THEN ApiFailure(t, "API Error: ", resp.message)
  ELSE LET stdout   == OrStr(resp.stdout, <<>>)
           stderr   == OrStr(resp.stderr, <<>>)
           codeExit == IF resp.code # Undefined THEN resp.code ELSE <<"1">>
           actual   == Trim(stdout)
           expected == Trim(OrStr(t.expectedOutput, <<>>))
           base     == [input |-> OrStr(t.input, <<>>), expected |-> t.expectedOutput,
                        actual |-> Trim(stdout), passed |-> FALSE,
                        executionTime |-> resp.ms, error |-> Null]
       IN  IF codeExit = <<"0">>
           THEN [base EXCEPT !.passed = (actual = expected),
                             !.error = IF actual = expected THEN Null
                                       ELSE <<"Expected: \"">> \o expected \o <<"\", Got: \"">>
                                            \o actual \o <<"\"">>]
           ELSE [base EXCEPT !.error = <<"Runtime Error: ">> \o OrStr(stderr, <<"Unknown error">>)]
JavaCase(t, resp) ==
  IF resp.throws THEN ApiFailure(t, "API Error: ", resp.message)
  ELSE LET stdout        == OrStr(resp.stdout, <<>>)
           stderr        == OrStr(resp.stderr, <<>>)
           compileStderr == OrStr(resp.compileStderr, <<>>)
           codeExit      == IF resp.code # Undefined THEN resp.code ELSE <<"1">>
           actual        == Trim(stdout)
           expected      == Trim(OrStr(t.expectedOutput, <<>>))
           base          == [input |-> OrStr(t.input, <<>>), expected |-> t.expectedOutput,
                             actual |-> Trim(stdout), passed |-> FALSE,
                             executionTime |-> resp.ms, error |-> Null]
       IN  IF compileStderr # <<>>
           THEN [base EXCEPT !.error = <<"Compilation Error: ">> \o compileStderr]
           ELSE IF codeExit = <<"0">>
           THEN [base EXCEPT !.passed = (actual = expected),
                             !.error = IF actual = expected THEN Null
                                       ELSE <<"Expected: \"">> \o expected \o <<"\", Got: \"">>
                                            \o actual \o <<"\"">>]
           ELSE [base EXCEPT !.error = <<"Runtime Error: ">> \o OrStr(stderr, <<"Unknown error">>)]

\* one iteration of the loop of executeSQL, on the outcome of the embedded engine
SQLCase(t, resp) ==
  IF resp.throws THEN ApiFailure(t, "SQL Error: ", resp.message)
  ELSE LET actualOutput == IF resp.isArray /\ Len(resp.rows) > 0
                           THEN JSONStringifyRows(resp.rows) ELSE <<"[", "]">>
           expected     == Trim(OrStr(t.expectedOutput, <<>>))
           passed       == expected = Trim(actualOutput)
       IN  [input |-> OrStr(t.input, <<>>), expected |-> t.expectedOutput,
            actual |-> actualOutput, passed |-> passed, executionTime |-> resp.ms,
            error |-> IF passed THEN Null
                      ELSE <<"Expected: \"">> \o expected \o <<"\", Got: \"">>
                           \o actualOutput \o <<"\"">>]

ToLowerCase(language) ==
  CASE language = "Python" -> "python"
    [] language = "JAVA" -> "java"
    [] OTHER -> language

SupportedLanguages == {"python", "java", "sql"}

\* the switch of executeCode applied to one test case
ExecuteCase(language, t, resp) ==
  CASE ToLowerCase(language) = "python" -> PythonCase(t, resp)
    [] ToLowerCase(language) = "java" -> JavaCase(t, resp)
    [] ToLowerCase(language) = "sql" -> SQLCase(t, resp)

CountPassed(results) == Cardinality({i \in 1..Len(results) : results[i].passed})

\* Math.round((passedTests / totalTests) * 100)
ScoreExpr(passedTests, totalTests) ==
  IF totalTests > 0
  THEN IF passedTests = 0 THEN 0
       ELSE MathRound(FMul(FDiv(passedTests, totalTests), 100))
  ELSE 0

StatusAnyPassedAs(passedTests, totalTests) ==
  IF passedTests > 0 \/ totalTests = 0 THEN "accepted" ELSE "wrong_answer"

StatusExpr(passedTests, totalTests) ==
  IF passedTests = totalTests THEN "accepted" ELSE "wrong_answer"

\* the tail of executeCode: the aggregate of the per-test-case results
Aggregate(results) ==
  LET passedTests == CountPassed(results)
      totalTests  == Len(results)
  IN  [testCases |-> results,
       score |-> ScoreExpr(passedTests, totalTests),
       totalTests |-> totalTests,
       passedTests |-> passedTests,
       status |-> StatusExpr(passedTests, totalTests)]

\* round(100 * p / t) over the rationals, ties upwards
ExactRound(p, t) == (200 * p + t) \div (2 * t)

(***************************************************************************)
(* Inputs of the engine: test cases of a question, responses of the        *)
(* execution API and outcomes of the embedded SQL engine.                  *)
(***************************************************************************)
MaxTests == 2
ScoreMaxTests == 40

TestCases ==
  { [input |-> <<"1">>, expectedOutput |-> <<"a", "\n">>],
    [input |-> Undefined, expectedOutput |-> Undefined],
    [input |-> <<"S">>, expectedOutput |-> <<" ", "[", "r", "]">>] }

PistonOk(out, ms) ==
  [throws |-> FALSE, message |-> <<>>, stdout |-> out, stderr |-> <<>>, code |-> <<"0">>,
   compileStderr |-> Undefined, isArray |-> FALSE, rows |-> <<>>, ms |-> ms]

PistonResponses ==
  { PistonOk(<<"a">>, 3),
    PistonOk(<<"b", "\n">>, 4),
    PistonOk(<<>>, 2),
    [PistonOk(<<"a">>, 5) EXCEPT !.code = <<"1">>, !.stderr = <<"E">>],
    [PistonOk(Undefined, 1) EXCEPT !.code = Undefined, !.stderr = Undefined],
    [PistonOk(<<"a">>, 6) EXCEPT !.code = Null],
    [PistonOk(<<"a">>, 7) EXCEPT !.compileStderr = <<"W">>],
    [PistonOk(<<>>, 0) EXCEPT !.throws = TRUE, !.message = <<"timeout">>] }

SqlOutcome(isArray, rows, ms) ==
  [throws |-> FALSE, message |-> <<>>, stdout |-> <<>>, stderr |-> <<>>, code |-> Undefined,
   compileStderr |-> Undefined, isArray |-> isArray, rows |-> rows, ms |-> ms]

SqlOutcomes ==
  { SqlOutcome(TRUE, <<"r">>, 1),
    SqlOutcome(TRUE, <<"r", "q">>, 2),
    SqlOutcome(TRUE, <<>>, 1),
    SqlOutcome(FALSE, <<>>, 1),
    [SqlOutcome(FALSE, <<>>, 0) EXCEPT !.throws = TRUE, !.message = <<"no table">>] }

ResponsesOf(language) ==
  IF ToLowerCase(language) = "sql" THEN SqlOutcomes ELSE PistonResponses

RECURSIVE SeqsUpTo(_, _)
SeqsUpTo(S, n) ==
  IF n = 0 THEN {<<>>}
  ELSE LET shorter == SeqsUpTo(S, n - 1)
       IN  shorter \cup {Append(q, x) : q \in shorter, x \in S}

(***************************************************************************)
(* State of one call of CodeExecutionEngine.executeCode                    *)
(***************************************************************************)
VARIABLES
  exLang,      \* argument language
  exTests,     \* argument testCases
  exResps,     \* what the execution back end answered, per test case so far
  exResults,   \* the local array results
  exPc,        \* "idle", "loop", "aggregate", "returned" or "threw"
  exOut        \* the returned object, once returned

execVars == <<exLang, exTests, exResps, exResults, exPc, exOut>>

(***************************************************************************)
(* State of the browser tab (router, CodeEditor component, local storage, *)
(* timers and requests in flight) and of the remote document store.        *)
(***************************************************************************)
VARIABLES
  route,            \* "home" (Dashboard, where / and unknown paths lead), "assessment"
                    \* (the Assessment page) or "code" (the editor)
  ed,               \* the useState values of the mounted CodeEditor and the route parameter
  loadPc,           \* control point of loadAssessmentData
  cacheKeyRef,      \* cacheKeyRef.current (0 is null)
  lastSaveRef,      \* lastSaveRef.current
  localStorage,     \* question id -> entry under codeEditor_{assessment}_{question}_{user}
  timeouts,         \* closures of pending setTimeout(saveToCache, 100)
  shortcutCl,       \* the render whose handlers the editor's keyboard commands captured
  runCl,            \* closure of the handleRunCode call in flight
  sub,              \* the handleSubmitSolution call in flight
  sub2,             \* a second handleSubmitSolution call, started while sub is in flight
  submissionsCol,   \* collection submissions, in creation order
  reviewsCol,       \* collection assessmentReviews
  userAssessments,  \* document userAssessments/{uid}_{assessmentId}
  now,              \* Date.now()
  toast,            \* the last notification
  acts,             \* how many times the user acted or a read failed, so far
  fin,              \* the cleanupSubmissionsAndPersistScore call in flight
  usersDoc,         \* document users/{uid}
  assessmentsCol,   \* collection assessments: id -> document, if it exists
  dash,             \* the useState values of the Dashboard once it has fetched
  asmt,             \* the Assessment page (/assessment/:id), when mounted
  ran,              \* history: the code and the result of every execution completed
  authUser,         \* auth.currentUser of Firebase Auth
  user,             \* AuthProvider: useState user
  userProfile,      \* AuthProvider: useState userProfile
  loading,          \* AuthProvider: useState loading
  authCalls         \* calls of the onAuthStateChanged callback waiting for getDoc

sessionVars == <<route, ed, loadPc, cacheKeyRef, lastSaveRef, localStorage, timeouts, shortcutCl,
                 runCl, sub, sub2,
                 submissionsCol, reviewsCol, userAssessments, now, toast, acts,
                 fin, usersDoc, assessmentsCol, dash, asmt, ran,
                 authUser, user, userProfile, loading, authCalls>>
authVars == <<authUser, user, userProfile, loading, authCalls>>
otherVars == <<usersDoc, assessmentsCol, dash, asmt>>
vars == <<execVars, sessionVars>>

(***************************************************************************)
(* The assessment taken in a session: its questions in order, its time     *)
(* limit (minutes), and what the user can type.                            *)
(***************************************************************************)
NumQuestions == 2
MaxTicks == 2
MaxSubmissions == 2
MaxEvents == 4
MaxDays == 1
MaxFinalize == 2

Questions == 1..NumQuestions
TimeLimit == 1
MaxAge == 24 * 60 * 60 * 1000
DebounceMs == 2000
TickMs == 1000
\* the clock is days * MaxAge + ticks * TickMs
TicksSoFar == (now % MaxAge) \div TickMs
DaysSoFar == now \div MaxAge

PythonTest == [input |-> <<"1">>, expectedOutput |-> <<"a", "\n">>]
SqlTest == [input |-> <<"S">>, expectedOutput |-> <<" ", "[", "r", "]">>]

\* the id of a question document that has no test cases
NoTests == 9

\* the question documents: odd ones are Python with starter code, even ones SQL without
Question(q) ==
  IF q = NoTests
  THEN [id |-> q, language |-> "sql", starterCode |-> Undefined, testCases |-> <<>>]
  ELSE IF q % 2 = 1
  THEN [id |-> q, language |-> "python", starterCode |-> <<"s">>, testCases |-> <<PythonTest>>]
  ELSE [id |-> q, language |-> "sql", starterCode |-> Undefined, testCases |-> <<SqlTest>>]

AssessmentQuestions == [i \in 1..NumQuestions |-> i]

\* the signed-in user and the assessment of the session; another user, another assessment
Uid == "u1"
AssessmentId == "a1"
Users == {"u1", "u2"}
Assessments == {"a1", "a2"}
CourseOf(a) == IF a = "a1" THEN "c1" ELSE "c2"

\* a document of assessments as the admin form writes it (chances: Number(...) || 1)
AssessmentDoc(a, chances) ==
  [id |-> a, courseId |-> CourseOf(a), chances |-> chances, timeLimit |-> TimeLimit]

\* users/{uid} as registration writes it, with the courses an admin enrolled the user in
UserDoc(courses) ==
  [enrolledCourses |-> courses, assessmentsCompleted |-> [a \in Assessments |-> None]]

EditValues == {<<>>, <<"x">>}
SessionResponses == {PistonOk(<<"a">>, 3), PistonOk(<<"b", "\n">>, 4)}
SessionSqlOutcomes ==
  {SqlOutcome(TRUE, <<"r">>, 5), [SqlOutcome(FALSE, <<>>, 0) EXCEPT !.throws = TRUE, !.message = <<"no table">>]}

GetDefaultCode(language) ==
  CASE language = "python" -> <<"print(\"Hello World\")">>
    [] language = "sql" -> <<"SELECT \"Hello World\" AS message;">>
    [] OTHER -> <<>>

\* qn.starterCode || getDefaultCode(qn.language)
StarterOrDefault(q) == OrStr(Question(q).starterCode, GetDefaultCode(Question(q).language))

\* the component state of a freshly mounted CodeEditor at /code/{assessment}/{q}
InitialEd(q) ==
  [questionId |-> q, assessment |-> FALSE, questions |-> <<>>, currentQuestion |-> 0,
   currentQuestionIndex |-> 0, code |-> <<>>, loading |-> TRUE, running |-> FALSE,
   submitting |-> FALSE, testResults |-> None, timeRemaining |-> None,
   sessionStartTime |-> None, submissions |-> [q2 \in Questions |-> None],
   isFromCache |-> FALSE, showReview |-> FALSE, assessmentReview |-> None]

(***************************************************************************)
(* The local cache.  st is the storage seen by a handler:                  *)
(* [ls |-> localStorage, key |-> cacheKeyRef.current, lastSave |-> ...].    *)
(***************************************************************************)
Storage == [ls |-> localStorage, key |-> cacheKeyRef, lastSave |-> lastSaveRef]

\* what a saveToCache closure captured from its render
SaveCl(e) ==
  [code |-> e.code, timeRemaining |-> e.timeRemaining, sessionStartTime |-> e.sessionStartTime,
   questionId |-> e.questionId, testResults |-> e.testResults, currentQuestion |-> e.currentQuestion]

\* JSON.stringify of the payload: the member values in order; a member whose value is
\* undefined is left out (an empty slot)
JSONStringify(payload) ==
  << IF payload.code = Undefined THEN <<>> ELSE <<payload.code>>,
     payload.timeRemaining, payload.sessionStartTime, payload.questionId, payload.lastSaved,
     payload.testResults >>

\* JSON.parse of a stored payload: a member that was left out reads as undefined
JSONParse(text) ==
  [code |-> IF text[1] = <<>> THEN Undefined ELSE text[1][1],
   timeRemaining |-> text[2], sessionStartTime |-> text[3], questionId |-> text[4],
   lastSaved |-> text[5], testResults |-> text[6]]

GetCacheData(ls, key) == IF ls[key] = None THEN None ELSE Some(JSONParse(ls[key][1]))

ClearCacheData(ls, key) == IF key = 0 THEN ls ELSE [ls EXCEPT ![key] = None]

\* saveToCache of closure cl, called at time t with cacheKeyRef.current = key
SaveToCache(st, cl, key, t) ==
  IF key = 0 \/ cl.currentQuestion = 0 THEN st
  ELSE [st EXCEPT
          !.ls[key] = Some(JSONStringify(
                        [code |-> cl.code, timeRemaining |-> cl.timeRemaining,
                         sessionStartTime |-> cl.sessionStartTime, questionId |-> cl.questionId,
                         lastSaved |-> t, testResults |-> cl.testResults])),
          !.lastSave = t]

\* Date.now() - cached.lastSaved > maxAge
CacheExpiredAtAgeAs(cached, t) == t - cached.lastSaved >= MaxAge

CacheExpired(cached, t) == t - cached.lastSaved > MaxAge

\* loadFromCache at time t: the entry, or null after removing an expired one
LoadFromCache(st, t) ==
  IF st.key = 0 THEN [st |-> st, cached |-> None]
  ELSE LET cached == GetCacheData(st.ls, st.key)
       IN  IF cached = None THEN [st |-> st, cached |-> None]
           ELSE IF CacheExpired(cached[1], t)
                THEN [st |-> [st EXCEPT !.ls = ClearCacheData(st.ls, st.key)], cached |-> None]
                ELSE [st |-> st, cached |-> cached]

\* debouncedSaveToCache of the render e
DebouncedSaveToCache(st, e, t) ==
  IF t - st.lastSave > DebounceMs THEN SaveToCache(st, SaveCl(e), st.key, t) ELSE st

IndexOf(questions, q) ==
  IF \E i \in 1..Len(questions) : questions[i] = q
  THEN (CHOOSE i \in 1..Len(questions) : questions[i] = q) - 1
  ELSE 0 - 1

\* the effect on [questionId, questions, user]: select the question of the route and
\* restore its cached session, or start from the starter code
RestoreIgnoresCachedTimeAs(st, e, t, tst) ==
  IF Len(e.questions) > 0 /\ e.questionId # 0 /\ IndexOf(e.questions, e.questionId) >= 0
  THEN LET q      == e.questionId
           e1     == [e EXCEPT !.currentQuestionIndex = IndexOf(e.questions, q),
                               !.currentQuestion = q]
           ld     == LoadFromCache([st EXCEPT !.key = q], t)
       IN  IF ld.cached # None /\ ld.cached[1].questionId = q
           THEN [st |-> ld.st,
                 ed |-> [e1 EXCEPT !.code = OrStr(ld.cached[1].code, StarterOrDefault(q)),
                                   !.sessionStartTime = ld.cached[1].sessionStartTime,
                                   !.testResults = ld.cached[1].testResults,
                                   !.isFromCache = TRUE],
                 toast |-> "Session restored from cache", fresh |-> ld.cached[1].testResults # None]
           ELSE [st |-> ld.st,
                 ed |-> [e1 EXCEPT !.code = StarterOrDefault(q), !.testResults = None,
                                   !.isFromCache = FALSE],
                 toast |-> tst, fresh |-> FALSE]
  ELSE [st |-> st, ed |-> e, toast |-> tst, fresh |-> FALSE]

RestoreEffect(st, e, t, tst) ==
  IF Len(e.questions) > 0 /\ e.questionId # 0 /\ IndexOf(e.questions, e.questionId) >= 0
  THEN LET q      == e.questionId
           e1     == [e EXCEPT !.currentQuestionIndex = IndexOf(e.questions, q),
                               !.currentQuestion = q]
           ld     == LoadFromCache([st EXCEPT !.key = q], t)
       IN  IF ld.cached # None /\ ld.cached[1].questionId = q
           THEN [st |-> ld.st,
                 ed |-> [e1 EXCEPT !.code = OrStr(ld.cached[1].code, StarterOrDefault(q)),
                                   !.timeRemaining = ld.cached[1].timeRemaining,
                                   !.sessionStartTime = ld.cached[1].sessionStartTime,
                                   !.testResults = ld.cached[1].testResults,
                                   !.isFromCache = TRUE],
                 toast |-> "Session restored from cache", fresh |-> ld.cached[1].testResults # None]
           ELSE [st |-> ld.st,
                 ed |-> [e1 EXCEPT !.code = StarterOrDefault(q), !.testResults = None,
                                   !.isFromCache = FALSE],
                 toast |-> tst, fresh |-> FALSE]
  ELSE [st |-> st, ed |-> e, toast |-> tst, fresh |-> FALSE]

\* the effects of one commit in which saveToCache changed identity: the cleanup of the
\* previous render's effect calls the previous saveToCache, then the effect on
\* [code, currentQuestion, debouncedSaveToCache] runs
SaveEffects(st, prev, next, fresh, t) ==
  IF fresh \/ SaveCl(prev) # SaveCl(next)
  THEN LET st1 == SaveToCache(st, SaveCl(prev), st.key, t)
       IN  IF next.code # <<>> /\ next.currentQuestion # 0
           THEN DebouncedSaveToCache(st1, next, t) ELSE st1
  ELSE st

\* React commits the render next after the render prev (fresh: testResults was set to a
\* new object); a change of the route's question or of the question list runs the
\* restore effect, whose state updates are committed in turn
Commit(st, prev, next, fresh, t, tst) ==
  LET st1 == SaveEffects(st, prev, next, fresh, t)
  IN  IF prev.questionId # next.questionId \/ prev.questions # next.questions
      THEN LET r == RestoreEffect(st1, next, t, tst)
           IN  [st |-> SaveEffects(r.st, next, r.ed, r.fresh, t), ed |-> r.ed, toast |-> r.toast]
      ELSE [st |-> st1, ed |-> next, toast |-> tst]

\* a closure that outlives its component keeps the component's ref object
Freeze(x) == IF x.live THEN [x EXCEPT !.live = FALSE, !.key = cacheKeyRef] ELSE x
RefKey(x) == IF x.live THEN cacheKeyRef ELSE x.key

(***************************************************************************)
(* Accounts of Firebase Auth and their profile documents users/{uid}: the  *)
(* student of the session, an admin, and an account without profile.       *)
(***************************************************************************)
Accounts == {Uid, "adm", "np"}

\* { uid: firebaseUser.uid, ...userDoc.data() } if users/{uid} exists
Profile(a) ==
  IF a = "np" THEN None
  ELSE Some([uid |-> a, role |-> IF a = "adm" THEN "admin" ELSE "student"])

\* the student is signed in and the profile is loaded
SignedIn ==
  /\ authUser = Some(Uid)
  /\ user = Some(Uid)
  /\ userProfile = Profile(Uid)
  /\ loading = FALSE
  /\ authCalls = <<>>

\* the state in which no editor is mounted and nothing is in flight
SessionIdle ==
  /\ route = "home"
  /\ ed = InitialEd(0)
  /\ loadPc = "none"
  /\ cacheKeyRef = 0
  /\ lastSaveRef = 0
  /\ localStorage = [q \in Questions |-> None]
  /\ timeouts = {}
  /\ shortcutCl = None
  /\ runCl = None
  /\ sub = None
  /\ sub2 = None
  /\ submissionsCol = <<>>
  /\ reviewsCol = <<>>
  /\ userAssessments = None
  /\ now = 0
  /\ toast = ""
  /\ acts = 0
  /\ fin = <<>>
  /\ usersDoc = UserDoc({CourseOf(AssessmentId)})
  /\ assessmentsCol = [a \in Assessments |-> Some(AssessmentDoc(a, 1))]
  /\ dash = None
  /\ asmt = None
  /\ SignedIn
  /\ ran = {}


ExecInit ==
  /\ exLang \in {"python", "java", "sql", "JAVA", "cpp"}
  /\ exTests \in SeqsUpTo(TestCases, MaxTests)
  /\ exResps = <<>>
  /\ exResults = <<>>
  /\ exPc = "loop"
  /\ exOut = None
  /\ SessionIdle

\* default branch of the switch: throw new Error(`Unsupported language: ...`)
ExecUnsupported ==
  /\ exPc = "loop"
  /\ ToLowerCase(exLang) \notin SupportedLanguages
  /\ exPc' = "threw"
  /\ UNCHANGED <<exLang, exTests, exResps, exResults, exOut>>
  /\ UNCHANGED sessionVars

\* one awaited iteration of executePython / executeJava
ExecStepWith(responses) ==
  /\ exPc = "loop"
  /\ ToLowerCase(exLang) \in {"python", "java"}
  /\ Len(exResults) < Len(exTests)
  /\ \E resp \in responses :
       /\ exResps' = Append(exResps, resp)
       /\ exResults' = Append(exResults, ExecuteCase(exLang, exTests[Len(exResults) + 1], resp))
  /\ UNCHANGED <<exLang, exTests, exPc, exOut>>
  /\ UNCHANGED sessionVars

\* the loop of executeSQL, which awaits nothing
ExecSQLWith(outcomes) ==
  /\ exPc = "loop"
  /\ ToLowerCase(exLang) = "sql"
  /\ \E resps \in [1..Len(exTests) -> outcomes] :
       /\ exResps' = resps
       /\ exResults' = [i \in 1..Len(exTests) |-> ExecuteCase(exLang, exTests[i], resps[i])]
  /\ exPc' = "aggregate"
  /\ UNCHANGED <<exLang, exTests, exOut>>
  /\ UNCHANGED sessionVars

\* the for loop ends when i reaches testCases.length
LoopEndOnFailureAs ==
  /\ exPc = "loop"
  /\ ToLowerCase(exLang) \in {"python", "java"}
  /\ \/ Len(exResults) = Len(exTests)
     \/ Len(exResults) > 0 /\ ~exResults[Len(exResults)].passed
  /\ exPc' = "aggregate"
  /\ UNCHANGED <<exLang, exTests, exResps, exResults, exOut>>
  /\ UNCHANGED sessionVars

ExecLoopEnd ==
  /\ exPc = "loop"
  /\ ToLowerCase(exLang) \in {"python", "java"}
  /\ Len(exResults) = Len(exTests)
  /\ exPc' = "aggregate"
  /\ UNCHANGED <<exLang, exTests, exResps, exResults, exOut>>
  /\ UNCHANGED sessionVars

ExecReturn ==
  /\ exPc = "aggregate"
  /\ exOut' = Some(Aggregate(exResults))
  /\ exPc' = "returned"
  /\ UNCHANGED <<exLang, exTests, exResps, exResults>>
  /\ UNCHANGED sessionVars

ExecStep == ExecStepWith(PistonResponses)
ExecSQL == ExecSQLWith(SqlOutcomes)

ExecNext == ExecUnsupported \/ ExecStep \/ ExecSQL \/ ExecLoopEnd \/ ExecReturn

SpecExec == ExecInit /\ [][ExecNext]_vars

\* the aggregation applied to result arrays with p passed test cases out of t
ScoreCase == [input |-> <<"1">>, expectedOutput |-> <<"a">>]

ScoreInit ==
  /\ exLang = "python"
  /\ \E t \in 0..ScoreMaxTests : \E p \in 0..t :
       /\ exTests = [i \in 1..t |-> ScoreCase]
       /\ exResps = [i \in 1..t |-> IF i <= p THEN PistonOk(<<"a">>, 1) ELSE PistonOk(<<"b">>, 1)]
       /\ exResults = [i \in 1..t |-> ExecuteCase("python", ScoreCase, exResps[i])]
  /\ exPc = "aggregate"
  /\ exOut = None
  /\ SessionIdle

SpecScore == ScoreInit /\ [][ExecReturn]_vars

(***************************************************************************)
(* The session: one user taking the assessment in one browser tab.         *)
(***************************************************************************)
engineIdle ==
  /\ exLang = "python"
  /\ exTests = <<>>
  /\ exResps = <<>>
  /\ exResults = <<>>
  /\ exPc = "idle"
  /\ exOut = None

\* what an earlier visit left behind: the cache entry of question 1, saved after a failed
\* run two seconds before the time limit, and two submissions of question 1 (the first
\* one wrong, the second one accepted)
ResumeResults == Aggregate(<<ExecuteCase("python", PythonTest, PistonOk(<<"b", "\n">>, 4))>>)

ResumeEntry ==
  JSONStringify([code |-> <<"x">>, timeRemaining |-> Some(2),
                 sessionStartTime |-> Some(0 - 58000), questionId |-> 1, lastSaved |-> 0,
                 testResults |-> Some(ResumeResults)])

PriorRow(id, resp, timeSpent) ==
  LET tr == Aggregate(<<ExecuteCase("python", PythonTest, resp)>>)
  IN  [userId |-> Uid, assessmentId |-> AssessmentId, questionId |-> 1, code |-> <<"x">>,
       language |-> "python",
       status |-> tr.status, score |-> tr.score, testCasesResults |-> tr.testCases,
       passedTests |-> tr.passedTests, totalTests |-> tr.totalTests, timeSpent |-> timeSpent,
       submissionId |-> id, completed |-> FALSE]

PriorRows == <<PriorRow(1, PistonOk(<<"b", "\n">>, 4), 20), PriorRow(2, PistonOk(<<"a">>, 3), 40)>>

\* a row of another user for the same assessment and a row of the user for another one
ForeignRows ==
  <<[PriorRow(3, PistonOk(<<"a">>, 3), 30) EXCEPT !.userId = "u2"],
    [PriorRow(4, PistonOk(<<"a">>, 3), 30) EXCEPT !.assessmentId = "a2"]>>

InitialRows == PriorRows \o ForeignRows

\* history of executions: the code executed (handleRunCode passes code.trim()) with the
\* result executeCode returned; for a stored row and a cache entry, the execution they
\* came from
RanOf(code, tr) ==
  [code |-> Trim(code), status |-> tr.status, score |-> tr.score,
   testCasesResults |-> tr.testCases]

RowRan(row) ==
  [code |-> Trim(row.code), status |-> row.status, score |-> row.score,
   testCasesResults |-> row.testCasesResults]

RanOfRows(rows) == {RowRan(rows[j]) : j \in 1..Len(rows)}

RanOfCache(ls) ==
  {RanOf(GetCacheData(ls, q)[1].code, GetCacheData(ls, q)[1].testResults[1]) :
     q \in {k \in Questions : ls[k] # None /\ GetCacheData(ls, k)[1].testResults # None}}

Init ==
  /\ engineIdle
  /\ route = "home"
  /\ ed = InitialEd(0)
  /\ loadPc = "none"
  /\ cacheKeyRef = 0
  /\ lastSaveRef = 0
  /\ localStorage = [q \in Questions |-> IF q = 1 THEN Some(ResumeEntry) ELSE None]
  /\ timeouts = {}
  /\ shortcutCl = None
  /\ runCl = None
  /\ sub = None
  /\ sub2 = None
  /\ submissionsCol = InitialRows
  /\ reviewsCol = <<>>
  /\ userAssessments = None
  /\ now = 0
  /\ toast = ""
  /\ acts = 0
  /\ fin = <<>>
  /\ usersDoc = UserDoc({CourseOf(AssessmentId)})
  /\ assessmentsCol = [a \in Assessments |-> Some(AssessmentDoc(a, 1))]
  /\ dash = None
  /\ asmt = None
  /\ SignedIn
  /\ ran = RanOfRows(submissionsCol) \cup RanOfCache(localStorage)

\* the user acts, or a read of the store fails
Act == acts < MaxEvents /\ acts' = acts + 1

Apply(r) ==
  /\ localStorage' = r.st.ls
  /\ cacheKeyRef' = r.st.key
  /\ lastSaveRef' = r.st.lastSave
  /\ ed' = r.ed
  /\ toast' = r.toast

FreezeOpt(x) == IF x = None THEN None ELSE Some(Freeze(x[1]))

\* the route leaves /code/...: the editor unmounts, the cleanup of its last render calls
\* saveToCache, and what is in flight goes on without the component
Unmount(st, last, t) ==
  /\ route' = "home"
  /\ localStorage' = SaveToCache(st, SaveCl(last), st.key, t).ls
  /\ ed' = InitialEd(0)
  /\ loadPc' = "none"
  /\ cacheKeyRef' = 0
  /\ lastSaveRef' = 0
  /\ shortcutCl' = None
  /\ runCl' = FreezeOpt(runCl)
  /\ sub' = FreezeOpt(sub)
  /\ sub2' = FreezeOpt(sub2)

\* the route enters /code/{assessment}/{q}: first render and first effects
Mount(q) ==
  /\ route' = "code"
  /\ ed' = InitialEd(q)
  /\ loadPc' = "assessment"
  /\ cacheKeyRef' = 0
  /\ lastSaveRef' = now
  /\ shortcutCl' = None

\* the user opens /code/{assessment}/{q} from the Dashboard's tab (a link, the address
\* bar, a page load): ProtectedRoute lets every signed-in user in
Enter ==
  /\ Act
  /\ route = "home"
  /\ \E q \in Questions : Mount(q)
  /\ dash' = None
  /\ UNCHANGED <<execVars, authVars, ran, sub2, fin, usersDoc, assessmentsCol, asmt, localStorage, timeouts, runCl, sub,
                 submissionsCol, reviewsCol, userAssessments, now, toast>>

\* loadAssessmentData after getDoc(assessments/{id}): a missing document ends the call
\* with navigate('/'); enrolment is not looked at
LoadAssessment ==
  /\ UNCHANGED acts
  /\ route = "code" /\ loadPc = "assessment"
  /\ IF assessmentsCol[AssessmentId] = None
     THEN /\ Unmount(Storage, ed, now)
          /\ timeouts' = {Freeze(x) : x \in timeouts}
          /\ toast' = "Assessment not found"
     ELSE /\ Apply(Commit(Storage, ed,
                          [ed EXCEPT !.assessment = TRUE,
                                     !.timeRemaining =
                                        Some(assessmentsCol[AssessmentId][1].timeLimit * 60),
                                     !.sessionStartTime = Some(now)],
                          FALSE, now, toast))
          /\ loadPc' = "questions"
          /\ UNCHANGED <<route, timeouts, shortcutCl, runCl, sub, sub2>>
  /\ UNCHANGED <<execVars, authVars, ran, fin, otherVars, submissionsCol, reviewsCol, userAssessments, now>>

\* loadAssessmentData after the question documents arrived
LoadQuestions ==
  /\ UNCHANGED acts
  /\ route = "code" /\ loadPc = "questions"
  /\ LET idx == IndexOf(AssessmentQuestions, ed.questionId)
     IN  Apply(Commit(Storage, ed,
                      IF idx >= 0
                      THEN [ed EXCEPT !.questions = AssessmentQuestions,
                                      !.currentQuestionIndex = idx,
                                      !.currentQuestion = ed.questionId]
                      ELSE [ed EXCEPT !.questions = AssessmentQuestions],
                      FALSE, now, toast))
  /\ loadPc' = "submissions"
  /\ UNCHANGED <<execVars, authVars, ran, sub2, fin, otherVars, route, timeouts, shortcutCl, runCl, sub, submissionsCol, reviewsCol,
                 userAssessments, now>>

\* the submissions map built from a query snapshot listing the rows in the order order:
\* a later row of a question overwrites an earlier one
RECURSIVE SubsMap(_, _)
SubsMap(col, order) ==
  IF Len(order) = 0 THEN [q \in Questions |-> None]
  ELSE LET i == order[Len(order)]
           m == SubsMap(col, SubSeq(order, 1, Len(order) - 1))
       IN  [m EXCEPT ![col[i].questionId] = Some(col[i])]

\* query(submissions, where('userId', '==', user.uid), where('assessmentId', '==', assessmentId))
Mine(col) == SelectSeq(col, LAMBDA r : r.userId = Uid /\ r.assessmentId = AssessmentId)

Orders(n) == {o \in [1..n -> 1..n] : \A i, j \in 1..n : i # j => o[i] # o[j]}

\* loadAssessmentData after getDocs(submissions of the user and assessment); the query
\* has no orderBy, so the snapshot lists the rows in the order of their document ids
LoadSubmissions ==
  /\ UNCHANGED acts
  /\ route = "code" /\ loadPc = "submissions"
  /\ \E order \in Orders(Len(Mine(submissionsCol))) :
       ed' = [ed EXCEPT !.submissions = SubsMap(Mine(submissionsCol), order), !.loading = FALSE]
  /\ loadPc' = "done"
  /\ UNCHANGED <<execVars, authVars, ran, sub2, fin, otherVars, route, cacheKeyRef, lastSaveRef, localStorage, timeouts, shortcutCl, runCl, sub,
                 submissionsCol, reviewsCol, userAssessments, now, toast>>

\* a read of loadAssessmentData fails: catch, navigate('/')
LoadFail ==
  /\ Act
  /\ route = "code" /\ loadPc \in {"assessment", "questions", "submissions"}
  /\ Unmount(Storage, ed, now)
  /\ timeouts' = {Freeze(x) : x \in timeouts}
  /\ toast' = "Failed to load assessment"
  /\ UNCHANGED <<execVars, authVars, ran, fin, otherVars, submissionsCol, reviewsCol, userAssessments, now>>

EditorShown == route = "code" /\ ~ed.loading /\ ed.currentQuestion # 0 /\ ~ed.showReview

\* handleCodeChange
Edit ==
  /\ Act
  /\ EditorShown
  /\ \E v \in EditValues :
       /\ v # ed.code
       /\ Apply(Commit(Storage, ed, [ed EXCEPT !.code = v], FALSE, now, toast))
  /\ UNCHANGED <<execVars, authVars, ran, sub2, fin, otherVars, route, loadPc, timeouts, shortcutCl, runCl, sub, submissionsCol, reviewsCol,
                 userAssessments, now>>

\* saveProgress
SaveProgress ==
  /\ Act
  /\ EditorShown
  /\ Apply([st |-> SaveToCache(Storage, SaveCl(ed), cacheKeyRef, now), ed |-> ed,
            toast |-> "Progress saved"])
  /\ UNCHANGED <<execVars, authVars, ran, sub2, fin, otherVars, route, loadPc, timeouts, shortcutCl, runCl, sub, submissionsCol, reviewsCol,
                 userAssessments, now>>

\* resetCode
ResetCode ==
  /\ Act
  /\ EditorShown
  /\ Apply(Commit(SaveToCache(Storage, SaveCl(ed), cacheKeyRef, now), ed,
                  [ed EXCEPT !.code = StarterOrDefault(ed.currentQuestion),
                             !.testResults = None],
                  FALSE, now, "Code reset"))
  /\ UNCHANGED <<execVars, authVars, ran, sub2, fin, otherVars, route, loadPc, timeouts, shortcutCl, runCl, sub, submissionsCol, reviewsCol,
                 userAssessments, now>>

\* restartSession
RestartSession ==
  /\ Act
  /\ EditorShown
  /\ Apply(Commit([Storage EXCEPT !.ls = ClearCacheData(localStorage, cacheKeyRef)], ed,
                  [ed EXCEPT !.code = StarterOrDefault(ed.currentQuestion),
                             !.testResults = None,
                             !.timeRemaining = Some(TimeLimit * 60),
                             !.sessionStartTime = Some(now),
                             !.isFromCache = FALSE],
                  FALSE, now, "Session restarted"))
  /\ UNCHANGED <<execVars, authVars, ran, sub2, fin, otherVars, route, loadPc, timeouts, shortcutCl, runCl, sub, submissionsCol, reviewsCol,
                 userAssessments, now>>

\* handleQuestionChange(idx) for another question of the list
QuestionChange ==
  /\ Act
  /\ EditorShown
  /\ \E idx \in 0..(Len(ed.questions) - 1) :
       /\ ed.questions[idx + 1] # ed.questionId
       /\ Apply(Commit(SaveToCache(Storage, SaveCl(ed), cacheKeyRef, now), ed,
                       [ed EXCEPT !.questionId = ed.questions[idx + 1]], FALSE, now, toast))
  /\ UNCHANGED <<execVars, authVars, ran, sub2, fin, otherVars, route, loadPc, timeouts, shortcutCl, runCl, sub, submissionsCol, reviewsCol,
                 userAssessments, now>>

\* a link of the navigation bar, or Go to Dashboard of the Question Not Found screen
NavigateAway ==
  /\ Act
  /\ route = "code"
  /\ Unmount(Storage, ed, now)
  /\ timeouts' = {Freeze(x) : x \in timeouts}
  /\ UNCHANGED <<execVars, authVars, ran, fin, otherVars, submissionsCol, reviewsCol, userAssessments, now, toast>>

\* the Close buttons of the review
CloseReview ==
  /\ Act
  /\ route = "code" /\ ed.showReview /\ ed.assessmentReview # None
  /\ ed' = [ed EXCEPT !.showReview = FALSE]
  /\ UNCHANGED <<execVars, authVars, ran, sub2, fin, otherVars, route, loadPc, cacheKeyRef, lastSaveRef, localStorage, timeouts, shortcutCl, runCl,
                 sub, submissionsCol, reviewsCol, userAssessments, now, toast>>

\* the editor widget is ready: handleEditorMount registers the keyboard commands, which
\* call the onRunCode and onSubmitCode of the render current at that moment from then on
MonacoMount ==
  /\ UNCHANGED acts
  /\ route = "code" /\ ~ed.loading /\ ed.currentQuestion # 0
  /\ shortcutCl = None
  /\ shortcutCl' = Some(ed)
  /\ UNCHANGED <<execVars, authVars, ran, sub2, fin, otherVars, route, ed, loadPc, cacheKeyRef, lastSaveRef, localStorage, timeouts,
                 runCl, sub, submissionsCol, reviewsCol, userAssessments, now, toast>>

\* the renders whose handleRunCode / handleSubmitSolution the user can invoke: the
\* current one through the buttons, the captured one through the keyboard
Handlers == {ed} \cup (IF shortcutCl = None THEN {} ELSE {shortcutCl[1]})

\* one firing of the interval of the timer effect: the updater of setTimeRemaining, with
\* handleTimeUp when the time is up.  At time-up React either evaluates the updater
\* eagerly (the render with 0 is never committed) or while rendering (it is committed
\* before the route changes).
TickBody ==
  /\ UNCHANGED acts
  /\ route = "code"
  /\ ed.timeRemaining # None /\ ed.timeRemaining[1] > 0
  /\ timeouts = {}   \* a timeout of 100 ms is due before the next firing of an interval
  /\ LET t         == now + TickMs
         next      == ed.timeRemaining[1] - 1
         scheduled == IF next % 10 = 0
                      THEN timeouts \cup {[cl |-> SaveCl(ed), live |-> TRUE, key |-> 0]}
                      ELSE timeouts
     IN  /\ now' = t
         /\ IF next <= 0
            THEN LET st1 == [Storage EXCEPT !.ls = ClearCacheData(localStorage, cacheKeyRef)]
                     c   == Commit(st1, ed, [ed EXCEPT !.timeRemaining = Some(0)], FALSE, t, toast)
                 IN  /\ Unmount(st1, ed, t) \/ Unmount(c.st, c.ed, t)
                     /\ timeouts' = {Freeze(x) : x \in scheduled}
                     /\ toast' = "Time's up! Assessment ended."
            ELSE /\ Apply(Commit(Storage, ed, [ed EXCEPT !.timeRemaining = Some(next)],
                                 FALSE, t, toast))
                 /\ timeouts' = scheduled
                 /\ UNCHANGED <<route, loadPc, shortcutCl, runCl, sub, sub2>>
  /\ UNCHANGED <<execVars, authVars, ran, fin, otherVars, submissionsCol, reviewsCol, userAssessments>>

Tick == TicksSoFar < MaxTicks /\ TickBody

\* a pending setTimeout(saveToCache, 100) fires
TimeoutFire ==
  /\ UNCHANGED acts
  /\ \E x \in timeouts :
       LET st1 == SaveToCache(Storage, x.cl, RefKey(x), now)
       IN  /\ localStorage' = st1.ls
           /\ lastSaveRef' = IF x.live THEN st1.lastSave ELSE lastSaveRef
           /\ timeouts' = timeouts \ {x}
  /\ UNCHANGED <<execVars, authVars, ran, sub2, fin, otherVars, route, ed, loadPc, cacheKeyRef, shortcutCl, runCl, sub, submissionsCol, reviewsCol,
                 userAssessments, now, toast>>

\* handleRunCode after the await of executeCode, for the closure r of the click:
\* setTestResults(result), saveToCache(), the notification, setRunning(false)
RunContinuation(r, result) ==
  LET st1 == SaveToCache(Storage, r.cl, RefKey(r), now)
      msg == IF result.passedTests = result.totalTests
             THEN "All test cases passed" ELSE "Some test cases passed"
  IN  /\ ran' = ran \cup {RanOf(r.cl.code, result)}
      /\ IF r.live
         THEN Apply(Commit(st1, ed, [ed EXCEPT !.testResults = Some(result), !.running = FALSE],
                           TRUE, now, msg))
         ELSE /\ localStorage' = st1.ls
              /\ toast' = msg
              /\ UNCHANGED <<ed, cacheKeyRef, lastSaveRef>>

\* handleRunCode up to the first request of executeCode; executeSQL awaits nothing, so a
\* SQL run is over before any other event is handled
RunStartNoTestCaseCheckAs ==
  /\ Act
  /\ EditorShown /\ ~ed.running /\ runCl = None
  /\ \E e \in Handlers :
       LET qn == Question(e.currentQuestion)
           r  == [cl |-> SaveCl(e), live |-> TRUE, key |-> 0, results |-> <<>>]
       IN  IF Trim(e.code) = <<>>
           THEN /\ toast' = "Please write some code first"
                /\ UNCHANGED <<ed, runCl, cacheKeyRef, lastSaveRef, localStorage, ran>>
           ELSE IF ToLowerCase(qn.language) = "sql"
           THEN /\ \E resps \in [1..Len(qn.testCases) -> SessionSqlOutcomes] :
                     RunContinuation(r, Aggregate([i \in 1..Len(qn.testCases) |->
                                        ExecuteCase(qn.language, qn.testCases[i], resps[i])]))
                /\ UNCHANGED runCl
           ELSE /\ ed' = [ed EXCEPT !.running = TRUE]
                /\ runCl' = Some(r)
                /\ UNCHANGED <<toast, cacheKeyRef, lastSaveRef, localStorage, ran>>
  /\ UNCHANGED <<execVars, authVars, sub2, fin, otherVars, route, loadPc, timeouts, shortcutCl, sub, submissionsCol, reviewsCol,
                 userAssessments, now>>

RunStart ==
  /\ Act
  /\ EditorShown /\ ~ed.running /\ runCl = None
  /\ \E e \in Handlers :
       LET qn == Question(e.currentQuestion)
           r  == [cl |-> SaveCl(e), live |-> TRUE, key |-> 0, results |-> <<>>]
       IN  IF Trim(e.code) = <<>>
           THEN /\ toast' = "Please write some code first"
                /\ UNCHANGED <<ed, runCl, cacheKeyRef, lastSaveRef, localStorage, ran>>
           ELSE IF Len(qn.testCases) = 0
           THEN /\ toast' = "No test cases available for this question"
                /\ UNCHANGED <<ed, runCl, cacheKeyRef, lastSaveRef, localStorage, ran>>
           ELSE IF ToLowerCase(qn.language) = "sql"
           THEN /\ \E resps \in [1..Len(qn.testCases) -> SessionSqlOutcomes] :
                     RunContinuation(r, Aggregate([i \in 1..Len(qn.testCases) |->
                                        ExecuteCase(qn.language, qn.testCases[i], resps[i])]))
                /\ UNCHANGED runCl
           ELSE /\ ed' = [ed EXCEPT !.running = TRUE]
                /\ runCl' = Some(r)
                /\ UNCHANGED <<toast, cacheKeyRef, lastSaveRef, localStorage, ran>>
  /\ UNCHANGED <<execVars, authVars, sub2, fin, otherVars, route, loadPc, timeouts, shortcutCl, sub, submissionsCol, reviewsCol,
                 userAssessments, now>>

\* the execution API answers the request of the next test case; after the last one
\* executeCode returns and handleRunCode goes on
RunResponse ==
  /\ UNCHANGED acts
  /\ runCl # None
  /\ LET r     == runCl[1]
         qn    == Question(r.cl.currentQuestion)
         tcase == qn.testCases[Len(r.results) + 1]
     IN  \E resp \in SessionResponses :
           LET results == Append(r.results, ExecuteCase(qn.language, tcase, resp))
           IN  IF Len(results) < Len(qn.testCases)
               THEN /\ runCl' = Some([r EXCEPT !.results = results])
                    /\ UNCHANGED <<ed, cacheKeyRef, lastSaveRef, localStorage, toast, ran>>
               ELSE /\ runCl' = None
                    /\ RunContinuation(r, Aggregate(results))
  /\ UNCHANGED <<execVars, authVars, sub2, fin, otherVars, route, loadPc, timeouts, shortcutCl, sub, submissionsCol, reviewsCol,
                 userAssessments, now>>

\* the document handleSubmitSolution writes, from the render of the click
SubData(e, t) ==
  LET tr == e.testResults[1]
  IN  [userId |-> Uid, assessmentId |-> AssessmentId, questionId |-> e.currentQuestion,
       code |-> e.code,
       language |-> Question(e.currentQuestion).language,
       status |-> IF tr.status = "" THEN "completed" ELSE tr.status,
       score |-> tr.score, testCasesResults |-> tr.testCases,
       passedTests |-> tr.passedTests, totalTests |-> tr.totalTests,
       timeSpent |-> (t - (IF e.sessionStartTime = None THEN 0 ELSE e.sessionStartTime[1]))
                     \div 1000,
       submissionId |-> 0, completed |-> FALSE]

\* if (!testResults) { toast.error('Please run your code first'); return; }
SubmitRefused(e) == e.testResults = None

\* handleSubmitSolution of a render, up to the await of addDoc(submissions)
SubmitStart ==
  /\ Act
  /\ EditorShown /\ sub = None /\ Len(submissionsCol) < Len(InitialRows) + MaxSubmissions
  /\ \E e \in Handlers :
       IF SubmitRefused(e)
       THEN /\ toast' = "Please run your code first"
            /\ UNCHANGED <<ed, sub>>
       ELSE /\ ed' = [ed EXCEPT !.submitting = TRUE]
            /\ sub' = Some([e |-> e, subData |-> SubData(e, now), pc |-> "addDoc",
                            review |-> None, live |-> TRUE, key |-> 0])
            /\ UNCHANGED toast
  /\ UNCHANGED <<execVars, authVars, ran, sub2, fin, otherVars, route, loadPc, cacheKeyRef, lastSaveRef, localStorage, timeouts,
                 shortcutCl, runCl, submissionsCol, reviewsCol, userAssessments, now>>

RECURSIVE SumExecutionTime(_)
SumExecutionTime(tcs) ==
  IF Len(tcs) = 0 THEN 0
  ELSE tcs[1].executionTime + SumExecutionTime(SubSeq(tcs, 2, Len(tcs)))

\* Math.round(100 / totalQuestions)
Weight(totalQuestions) ==
  IF totalQuestions > 0 THEN MathRound(FDiv(100, totalQuestions)) ELSE 0

RECURSIVE SumEarned(_)
SumEarned(items) ==
  IF Len(items) = 0 THEN 0 ELSE items[1].earnedPoints + SumEarned(SubSeq(items, 2, Len(items)))

\* buildAssessmentReview(latestSubForCurrent) of the render e
BuildAssessmentReview(e, latest) ==
  LET totalQuestions == Len(e.questions)
      weight == Weight(totalQuestions)
      Item(q) ==
        LET s      == IF q = latest.questionId THEN Some(latest) ELSE e.submissions[q]
            status == IF s = None THEN "" ELSE ToLowerCase(s[1].status)
        IN  [questionId |-> q, status |-> status,
             passedTests |-> IF s = None THEN 0 ELSE s[1].passedTests,
             totalTests |-> IF s = None THEN Len(Question(q).testCases) ELSE s[1].totalTests,
             earnedPoints |-> IF status = "accepted" THEN weight ELSE 0,
             executionTimeMs |-> IF s = None THEN 0 ELSE SumExecutionTime(s[1].testCasesResults),
             timeSpent |-> IF s = None \/ s[1].timeSpent = 0 THEN None ELSE Some(s[1].timeSpent),
             code |-> IF s = None THEN <<>> ELSE s[1].code]
      items == [i \in 1..totalQuestions |-> Item(e.questions[i])]
  IN  [totalQuestions |-> totalQuestions,
       completedCount |-> Cardinality({i \in 1..totalQuestions : items[i].status = "accepted"}),
       totalScore |-> SumEarned(items), items |-> items]

ClearAll(ls, questions) == [q \in DOMAIN ls |-> IF \E i \in 1..Len(questions) : questions[i] = q
                                                   THEN None ELSE ls[q]]

\* the row as stored under its new document id
RECURSIVE NextId(_)
NextId(col) ==
  IF Len(col) = 0 THEN 1
  ELSE LET n == NextId(SubSeq(col, 2, Len(col)))
       IN  IF col[1].submissionId >= n THEN col[1].submissionId + 1 ELSE n

StoredRow(s) == [s.subData EXCEPT !.submissionId = NextId(submissionsCol)]

\* addDoc(collection(db, 'submissions'), subData): a new document
AddDocReplacesAs(col, row) ==
  IF \E i \in 1..Len(col) : /\ col[i].userId = row.userId /\ col[i].assessmentId = row.assessmentId
                            /\ col[i].questionId = row.questionId
  THEN [i \in 1..Len(col) |->
          IF /\ col[i].userId = row.userId /\ col[i].assessmentId = row.assessmentId
             /\ col[i].questionId = row.questionId
          THEN [row EXCEPT !.submissionId = col[i].submissionId] ELSE col[i]]
  ELSE Append(col, row)
AddDoc(col, row) == Append(col, row)

\* addDoc(submissions) resolved: the row is stored, the cache entry of the current key is
\* cleared and the submissions map updated; then navigate to the next question, or for
\* the last question clear every entry and build the review
SubmitResolve ==
  /\ UNCHANGED acts
  /\ sub # None /\ sub[1].pc = "addDoc"
  /\ LET s    == sub[1]
         e    == s.e
         row  == StoredRow(s)
         ls1  == ClearCacheData(localStorage, RefKey(s))
         mine == IF s.live
                 THEN [ed EXCEPT !.submissions[e.currentQuestion] = Some([row EXCEPT !.completed = TRUE])]
                 ELSE ed
     IN  /\ submissionsCol' = AddDoc(submissionsCol, row)
         /\ IF e.currentQuestionIndex < Len(e.questions) - 1
            THEN LET nextQuestion == e.questions[e.currentQuestionIndex + 2]
                     done == IF s.live THEN [mine EXCEPT !.submitting = FALSE] ELSE mine
                 IN  /\ sub' = None
                     /\ IF route = "code"
                        THEN /\ Apply(Commit([Storage EXCEPT !.ls = ls1], ed,
                                             [done EXCEPT !.questionId = nextQuestion],
                                             FALSE, now, "Solution submitted"))
                             /\ UNCHANGED <<route, loadPc>>
                        ELSE /\ Mount(nextQuestion)
                             /\ localStorage' = ls1
                             /\ toast' = "Solution submitted"
            ELSE /\ sub' = Some([s EXCEPT !.pc = "review",
                                          !.review = Some(BuildAssessmentReview(e,
                                                            [s.subData EXCEPT !.submissionId = 0]))])
                 /\ localStorage' = ClearAll(ls1, e.questions)
                 /\ ed' = mine
                 /\ toast' = "Solution submitted"
                 /\ UNCHANGED <<route, loadPc, cacheKeyRef, lastSaveRef>>
  /\ UNCHANGED <<execVars, authVars, ran, sub2, fin, otherVars, timeouts, shortcutCl, runCl, reviewsCol, userAssessments, now>>

\* addDoc(submissions) rejected: catch, finally
SubmitReject ==
  /\ UNCHANGED acts
  /\ sub # None /\ sub[1].pc = "addDoc"
  /\ toast' = "Failed to submit solution"
  /\ ed' = IF sub[1].live THEN [ed EXCEPT !.submitting = FALSE] ELSE ed
  /\ sub' = None
  /\ UNCHANGED <<execVars, authVars, ran, sub2, fin, otherVars, route, loadPc, cacheKeyRef, lastSaveRef, localStorage, timeouts, shortcutCl, runCl,
                 submissionsCol, reviewsCol, userAssessments, now>>

\* the two awaited writes of the review (a failure of either is swallowed), then
\* setAssessmentReview, setShowReview(true), finally
SubmitReviewDone ==
  /\ UNCHANGED acts
  /\ sub # None /\ sub[1].pc = "review"
  /\ LET review == sub[1].review[1]
     IN  /\ \E wrote \in 0..2 :
               /\ reviewsCol' = IF wrote >= 1 THEN Append(reviewsCol, review) ELSE reviewsCol
               /\ userAssessments' =
                    IF wrote = 2
                    THEN Some([status |-> "completed", totalScore |-> review.totalScore,
                               totalQuestions |-> review.totalQuestions,
                               completedCount |-> review.completedCount])
                    ELSE userAssessments
         /\ ed' = IF sub[1].live
                  THEN [ed EXCEPT !.assessmentReview = Some(review), !.showReview = TRUE,
                                  !.submitting = FALSE]
                  ELSE ed
  /\ toast' = "Assessment completed! Review generated."
  /\ sub' = None
  /\ UNCHANGED <<execVars, authVars, ran, sub2, fin, otherVars, route, loadPc, cacheKeyRef, lastSaveRef, localStorage, timeouts, shortcutCl, runCl,
                 submissionsCol, now>>

(***************************************************************************)
(* A second Submit while one is in flight.  The Submit Solution button is  *)
(* disabled while submitting, but the Submit button of the editor's        *)
(* toolbar is not, the keyboard command is not, and handleSubmitSolution   *)
(* does not look at submitting.                                            *)
(***************************************************************************)
\* onSubmitCode from the toolbar button or the keyboard command, while the call sub runs
SubmitAgain ==
  /\ Act
  /\ EditorShown /\ sub # None /\ sub2 = None
  /\ Len(submissionsCol) < Len(InitialRows) + MaxSubmissions
  /\ \E e \in Handlers :
       IF SubmitRefused(e)
       THEN /\ toast' = "Please run your code first"
            /\ UNCHANGED <<ed, sub2>>
       ELSE /\ ed' = [ed EXCEPT !.submitting = TRUE]
            /\ sub2' = Some([e |-> e, subData |-> SubData(e, now), pc |-> "addDoc",
                             review |-> None, live |-> TRUE, key |-> 0])
            /\ UNCHANGED toast
  /\ UNCHANGED <<execVars, authVars, ran, fin, otherVars, route, loadPc, cacheKeyRef, lastSaveRef,
                 localStorage, timeouts, shortcutCl, runCl, sub, submissionsCol, reviewsCol,
                 userAssessments, now>>

\* addDoc(submissions) of the second call resolved: as for the first call
SubmitAgainResolve ==
  /\ UNCHANGED acts
  /\ sub2 # None /\ sub2[1].pc = "addDoc"
  /\ LET s    == sub2[1]
         e    == s.e
         row  == StoredRow(s)
         ls1  == ClearCacheData(localStorage, RefKey(s))
         mine == IF s.live
                 THEN [ed EXCEPT !.submissions[e.currentQuestion] = Some([row EXCEPT !.completed = TRUE])]
                 ELSE ed
     IN  /\ submissionsCol' = AddDoc(submissionsCol, row)
         /\ IF e.currentQuestionIndex < Len(e.questions) - 1
            THEN LET nextQuestion == e.questions[e.currentQuestionIndex + 2]
                     done == IF s.live THEN [mine EXCEPT !.submitting = FALSE] ELSE mine
                 IN  /\ sub2' = None
                     /\ IF route = "code"
                        THEN /\ Apply(Commit([Storage EXCEPT !.ls = ls1], ed,
                                             [done EXCEPT !.questionId = nextQuestion],
                                             FALSE, now, "Solution submitted"))
                             /\ UNCHANGED <<route, loadPc>>
                        ELSE /\ Mount(nextQuestion)
                             /\ localStorage' = ls1
                             /\ toast' = "Solution submitted"
            ELSE /\ sub2' = Some([s EXCEPT !.pc = "review",
                                           !.review = Some(BuildAssessmentReview(e,
                                                             [s.subData EXCEPT !.submissionId = 0]))])
                 /\ localStorage' = ClearAll(ls1, e.questions)
                 /\ ed' = mine
                 /\ toast' = "Solution submitted"
                 /\ UNCHANGED <<route, loadPc, cacheKeyRef, lastSaveRef>>
  /\ UNCHANGED <<execVars, authVars, ran, fin, otherVars, timeouts, shortcutCl, runCl, sub, reviewsCol,
                 userAssessments, now>>

\* addDoc(submissions) of the second call rejected: catch, finally
SubmitAgainReject ==
  /\ UNCHANGED acts
  /\ sub2 # None /\ sub2[1].pc = "addDoc"
  /\ toast' = "Failed to submit solution"
  /\ ed' = IF sub2[1].live THEN [ed EXCEPT !.submitting = FALSE] ELSE ed
  /\ sub2' = None
  /\ UNCHANGED <<execVars, authVars, ran, fin, otherVars, route, loadPc, cacheKeyRef, lastSaveRef,
                 localStorage, timeouts, shortcutCl, runCl, sub, submissionsCol, reviewsCol,
                 userAssessments, now>>

\* the two awaited writes of the second call's review, then the state updates, finally
SubmitAgainReviewDone ==
  /\ UNCHANGED acts
  /\ sub2 # None /\ sub2[1].pc = "review"
  /\ LET review == sub2[1].review[1]
     IN  /\ \E wrote \in 0..2 :
               /\ reviewsCol' = IF wrote >= 1 THEN Append(reviewsCol, review) ELSE reviewsCol
               /\ userAssessments' =
                    IF wrote = 2
                    THEN Some([status |-> "completed", totalScore |-> review.totalScore,
                               totalQuestions |-> review.totalQuestions,
                               completedCount |-> review.completedCount])
                    ELSE userAssessments
         /\ ed' = IF sub2[1].live
                  THEN [ed EXCEPT !.assessmentReview = Some(review), !.showReview = TRUE,
                                  !.submitting = FALSE]
                  ELSE ed
  /\ toast' = "Assessment completed! Review generated."
  /\ sub2' = None
  /\ UNCHANGED <<execVars, authVars, ran, fin, otherVars, route, loadPc, cacheKeyRef, lastSaveRef,
                 localStorage, timeouts, shortcutCl, runCl, sub, submissionsCol, now>>

(***************************************************************************)
(* Finalization: the Download PDF and Go to Dashboard buttons of the       *)
(* review call cleanupSubmissionsAndPersistScore; the buttons stay enabled *)
(* while a call is in flight.                                              *)
(***************************************************************************)
RECURSIVE SumExecMs(_)
SumExecMs(items) ==
  IF Len(items) = 0 THEN 0 ELSE items[1].executionTimeMs + SumExecMs(SubSeq(items, 2, Len(items)))

\* computeAvgExecMs(review): considered = review.items.filter(() => true); the
\* quotient 0 / n is the double 0
ComputeAvgExecMs(review) ==
  LET considered == review.items
      sum        == SumExecMs(considered)
  IN  IF Len(review.items) = 0 THEN 0
      ELSE IF sum = 0 THEN 0
      ELSE MathRound(FDiv(sum, Len(considered)))

\* { score: review.totalScore ?? totalScore ?? 0, avgExecMs, completedAt: new Date() }
Payload(review, t) ==
  [score |-> review.totalScore, avgExecMs |-> ComputeAvgExecMs(review), completedAt |-> t]

RemoveAt(seq, i) == SubSeq(seq, 1, i - 1) \o SubSeq(seq, i + 1, Len(seq))

\* onClick of Download PDF (after the export) or of Go to Dashboard, up to the await of
\* getDocs(submissions of the user and assessment)
FinalizeStart ==
  /\ Act
  /\ route = "code" /\ ed.showReview /\ ed.assessmentReview # None /\ Len(fin) < MaxFinalize
  /\ \E kind \in {"pdf", "dashboard"} :
       fin' = Append(fin, [kind |-> kind, pc |-> "getDocs", review |-> ed.assessmentReview[1],
                           docs |-> {}, payload |-> None])
  /\ UNCHANGED <<execVars, authVars, ran, sub2, otherVars, route, ed, loadPc, cacheKeyRef, lastSaveRef, localStorage,
                 timeouts, shortcutCl, runCl, sub, submissionsCol, reviewsCol, userAssessments,
                 now, toast>>

\* getDocs resolved: snap.docs are the rows of the user and assessment at that moment;
\* batch.delete each, up to the await of batch.commit()
FinalizeSnapshot ==
  /\ UNCHANGED acts
  /\ \E i \in 1..Len(fin) :
       /\ fin[i].pc = "getDocs"
       /\ LET mine == Mine(submissionsCol)
          IN  fin' = [fin EXCEPT ![i].pc = "commit",
                                 ![i].docs = {mine[j].submissionId : j \in 1..Len(mine)}]
  /\ UNCHANGED <<execVars, authVars, ran, sub2, otherVars, route, ed, loadPc, cacheKeyRef, lastSaveRef, localStorage,
                 timeouts, shortcutCl, runCl, sub, submissionsCol, reviewsCol, userAssessments,
                 now, toast>>

\* the rows left when the batch deleting docs has committed
Deleted(col, docs) == SelectSeq(col, LAMBDA r : r.submissionId \notin docs)

\* batch.commit() resolved: the rows of the snapshot are deleted; the payload is built,
\* up to the await of updateDoc(users/{uid})
FinalizeCommitAtomicAs ==
  /\ UNCHANGED acts
  /\ \E i \in 1..Len(fin) :
       /\ fin[i].pc = "commit"
       /\ submissionsCol' = Deleted(submissionsCol, fin[i].docs)
       /\ usersDoc' = [usersDoc EXCEPT !.assessmentsCompleted[AssessmentId] =
                                         Some(Payload(fin[i].review, now))]
       /\ fin' = [fin EXCEPT ![i].pc = "update",
                             ![i].payload = Some(Payload(fin[i].review, now))]
  /\ UNCHANGED <<execVars, authVars, ran, sub2, assessmentsCol, dash, asmt, route, ed, loadPc, cacheKeyRef,
                 lastSaveRef, localStorage, timeouts, shortcutCl, runCl, sub, reviewsCol,
                 userAssessments, now, toast>>

FinalizeCommit ==
  /\ UNCHANGED acts
  /\ \E i \in 1..Len(fin) :
       /\ fin[i].pc = "commit"
       /\ submissionsCol' = Deleted(submissionsCol, fin[i].docs)
       /\ fin' = [fin EXCEPT ![i].pc = "update",
                             ![i].payload = Some(Payload(fin[i].review, now))]
  /\ UNCHANGED <<execVars, authVars, ran, sub2, otherVars, route, ed, loadPc, cacheKeyRef, lastSaveRef, localStorage,
                 timeouts, shortcutCl, runCl, sub, reviewsCol, userAssessments, now, toast>>

\* the call i returns; Go to Dashboard then navigates: /dashboard is no route of App,
\* so the catch-all route leads to /
FinalizeEnd(i) ==
  /\ fin' = RemoveAt(fin, i)
  /\ IF fin[i].kind = "dashboard" /\ route = "code"
     THEN /\ Unmount(Storage, ed, now)
          /\ timeouts' = {Freeze(x) : x \in timeouts}
     ELSE UNCHANGED <<route, ed, loadPc, cacheKeyRef, lastSaveRef, localStorage, timeouts,
                      shortcutCl, runCl, sub, sub2>>

\* updateDoc resolved: assessmentsCompleted.{assessmentId} is the payload
FinalizeWrite ==
  /\ UNCHANGED acts
  /\ \E i \in 1..Len(fin) :
       /\ fin[i].pc = "update"
       /\ usersDoc' = [usersDoc EXCEPT !.assessmentsCompleted[AssessmentId] = fin[i].payload]
       /\ toast' = "Saved score and cleaned up submissions"
       /\ FinalizeEnd(i)
  /\ UNCHANGED <<execVars, authVars, ran, assessmentsCol, dash, asmt, submissionsCol, reviewsCol,
                 userAssessments, now>>

\* getDocs, batch.commit() or updateDoc rejected: catch
FinalizeFail ==
  /\ UNCHANGED acts
  /\ \E i \in 1..Len(fin) :
       /\ toast' = "Cleanup failed"
       /\ FinalizeEnd(i)
  /\ UNCHANGED <<execVars, authVars, ran, otherVars, submissionsCol, reviewsCol, userAssessments, now>>

\* the tab is closed or the page reloaded: no cleanup runs, timers and continuations are
\* gone; a write already sent may or may not reach the store
CloseTab ==
  /\ Act
  /\ route = "code"
  /\ route' = "home"
  /\ ed' = InitialEd(0)
  /\ loadPc' = "none"
  /\ cacheKeyRef' = 0
  /\ lastSaveRef' = 0
  /\ timeouts' = {}
  /\ shortcutCl' = None
  /\ runCl' = None
  /\ sub' = None
  /\ sub2' = None
  /\ fin' = <<>>
  /\ \E landed \in BOOLEAN, L \in SUBSET (1..Len(fin)),
        landed2 \in (IF sub2 = None THEN {FALSE} ELSE BOOLEAN) :
       LET added1  == IF landed /\ sub # None /\ sub[1].pc = "addDoc"
                      THEN AddDoc(submissionsCol, StoredRow(sub[1])) ELSE submissionsCol
           added   == IF landed2 /\ sub2[1].pc = "addDoc"
                      THEN AddDoc(added1, [sub2[1].subData EXCEPT
                                             !.submissionId = NextId(added1)])
                      ELSE added1
           docs    == UNION {fin[i].docs : i \in {j \in L : fin[j].pc = "commit"}}
           writers == {i \in L : fin[i].pc = "update"}
       IN  /\ submissionsCol' = Deleted(added, docs)
           /\ IF writers = {} THEN UNCHANGED usersDoc
              ELSE \E w \in writers :
                     usersDoc' = [usersDoc EXCEPT !.assessmentsCompleted[AssessmentId] =
                                                   fin[w].payload]
  /\ UNCHANGED <<execVars, authVars, ran, assessmentsCol, dash, asmt, localStorage, reviewsCol, userAssessments,
                 now, toast>>

\* a day passes while the assessment is not open
IdleDay ==
  /\ Act
  /\ route = "home" /\ runCl = None /\ sub = None /\ timeouts = {}
  /\ DaysSoFar < MaxDays
  /\ now' = now + MaxAge
  /\ UNCHANGED <<execVars, authVars, ran, sub2, fin, otherVars, route, ed, loadPc, cacheKeyRef, lastSaveRef, localStorage, timeouts,
                 shortcutCl, runCl, sub, submissionsCol, reviewsCol, userAssessments, toast>>

Next ==
  \/ Enter \/ LoadAssessment \/ LoadQuestions \/ LoadSubmissions \/ LoadFail
  \/ Edit \/ SaveProgress \/ ResetCode \/ RestartSession \/ QuestionChange
  \/ NavigateAway \/ CloseReview \/ CloseTab \/ IdleDay
  \/ MonacoMount \/ Tick \/ TimeoutFire
  \/ RunStart \/ RunResponse
  \/ SubmitStart \/ SubmitResolve \/ SubmitReject \/ SubmitReviewDone
  \/ FinalizeStart \/ FinalizeSnapshot \/ FinalizeCommit \/ FinalizeWrite \/ FinalizeFail

Spec == Init /\ [][Next]_vars

(***************************************************************************)
(* The Dashboard (/) and the Assessment page (/assessment/:id)             *)
(***************************************************************************)
MaxChances == 2

\* query(submissions, where('userId', '==', user.uid))
UserRows(col) == SelectSeq(col, LAMBDA r : r.userId = Uid)

RECURSIVE MaxScore(_)
MaxScore(rows) ==
  IF Len(rows) = 0 THEN 0
  ELSE LET m == MaxScore(SubSeq(rows, 2, Len(rows)))
       IN  IF rows[1].score > m THEN rows[1].score ELSE m

RECURSIVE SumTimeSpent(_)
SumTimeSpent(rows) ==
  IF Len(rows) = 0 THEN 0 ELSE rows[1].timeSpent + SumTimeSpent(SubSeq(rows, 2, Len(rows)))

\* the card of the assessment document a (chances 0: the document has no such field)
Card(a, completedMap, submissionsData) ==
  LET entry            == completedMap[a.id]
      isCompleted      == entry # None /\ entry[1].score \in Int
      aSubs            == IF isCompleted THEN <<>>
                          ELSE SelectSeq(submissionsData, LAMBDA r : r.assessmentId = a.id)
      chances          == IF a.chances = 0 THEN 1 ELSE a.chances
      submissionCount  == Len(aSubs)
      chancesRemaining == IF chances - submissionCount > 0 THEN chances - submissionCount ELSE 0
  IN  [id |-> a.id, chances |-> a.chances, isCompleted |-> isCompleted,
       userScore |-> IF isCompleted THEN entry[1].score
                     ELSE IF Len(aSubs) > 0 THEN MaxScore(aSubs) ELSE 0,
       chancesUsed |-> submissionCount, chancesRemaining |-> chancesRemaining,
       canRetake |-> ~isCompleted /\ submissionCount > 0]

RECURSIVE SumScores(_, _)
SumScores(completedMap, ids) ==
  IF ids = {} THEN 0
  ELSE LET a == CHOOSE x \in ids : TRUE
       IN  completedMap[a][1].score + SumScores(completedMap, ids \ {a})

\* Math.round(p / t)
RoundDiv(p, t) == IF p = 0 THEN 0 ELSE MathRound(FDiv(p, t))

\* setUserStats: completedEntries = Object.entries(completedMap)
Stats(assessmentsData, completedMap, submissionsData) ==
  LET completedEntries == {a \in DOMAIN completedMap : completedMap[a] # None}
      completedCount   == Cardinality(completedEntries)
  IN  [totalAssessments |-> Cardinality(assessmentsData),
       completedAssessments |-> completedCount,
       averageScore |-> IF completedCount > 0
                        THEN RoundDiv(SumScores(completedMap, completedEntries), completedCount)
                        ELSE 0,
       totalTimeSpent |-> RoundDiv(SumTimeSpent(submissionsData), 60)]

\* fetchDashboardData of the mounted Dashboard: the documents of assessments, users/{uid}
\* and the rows of the user are read; one card per assessment document (the order of
\* the cards is left out) and the stats
DashFetch ==
  /\ UNCHANGED acts
  /\ route = "home" /\ dash = None
  /\ LET assessmentsData == {a \in Assessments : assessmentsCol[a] # None}
         completedMap    == usersDoc.assessmentsCompleted
         submissionsData == UserRows(submissionsCol)
     IN  dash' = Some([assessments |->
                         [a \in assessmentsData |->
                            Card(assessmentsCol[a][1], completedMap, submissionsData)],
                       userStats |-> Stats(assessmentsData, completedMap, submissionsData)])
  /\ UNCHANGED <<execVars, authVars, ran, sub2, fin, usersDoc, assessmentsCol, asmt, route, ed, loadPc, cacheKeyRef,
                 lastSaveRef, localStorage, timeouts, shortcutCl, runCl, sub, submissionsCol,
                 reviewsCol, userAssessments, now, toast>>

\* a click on the card of an assessment that is not completed, or on its Start
\* Assessment / Retake Assessment button: handleStartAssessment
DashStart ==
  /\ Act
  /\ route = "home" /\ dash # None
  /\ \E a \in DOMAIN dash[1].assessments :
       /\ ~dash[1].assessments[a].isCompleted
       /\ asmt' = Some([id |-> a, loading |-> TRUE])
  /\ route' = "assessment"
  /\ dash' = None
  /\ UNCHANGED <<execVars, authVars, ran, sub2, fin, usersDoc, assessmentsCol, ed, loadPc, cacheKeyRef, lastSaveRef,
                 localStorage, timeouts, shortcutCl, runCl, sub, submissionsCol, reviewsCol,
                 userAssessments, now, toast>>

\* fetchAssessmentData of the Assessment page: a missing document or a course the user
\* is not enrolled in ends with navigate('/'); otherwise assessment and questions are set
AsmtFetch ==
  /\ UNCHANGED acts
  /\ route = "assessment" /\ asmt[1].loading
  /\ LET a == assessmentsCol[asmt[1].id]
     IN  IF a = None
         THEN /\ toast' = "Assessment not found"
              /\ route' = "home" /\ asmt' = None
         ELSE IF a[1].courseId \notin usersDoc.enrolledCourses
         THEN /\ toast' = "You are not enrolled in this course"
              /\ route' = "home" /\ asmt' = None
         ELSE /\ asmt' = Some([asmt[1] EXCEPT !.loading = FALSE])
              /\ UNCHANGED <<route, toast>>
  /\ UNCHANGED <<execVars, authVars, ran, sub2, fin, usersDoc, assessmentsCol, dash, ed, loadPc, cacheKeyRef,
                 lastSaveRef, localStorage, timeouts, shortcutCl, runCl, sub, submissionsCol,
                 reviewsCol, userAssessments, now>>

\* handleStartAssessment of the Assessment page: navigate to the first question
AsmtStart ==
  /\ Act
  /\ route = "assessment" /\ ~asmt[1].loading /\ asmt[1].id = AssessmentId
  /\ Mount(AssessmentQuestions[1])
  /\ asmt' = None
  /\ UNCHANGED <<execVars, authVars, ran, sub2, fin, usersDoc, assessmentsCol, dash, localStorage, timeouts, runCl, sub,
                 submissionsCol, reviewsCol, userAssessments, now, toast>>

(***************************************************************************)
(* The path of a session to its review and finalization: the user opens a  *)
(* question, runs, submits, and uses the buttons of the review, at most    *)
(* FinalEvents times in all; the user has earlier submissions or none.     *)
(***************************************************************************)
FinalEvents == 6

FinalInit ==
  /\ engineIdle
  /\ route = "home"
  /\ ed = InitialEd(0)
  /\ loadPc = "none"
  /\ cacheKeyRef = 0
  /\ lastSaveRef = 0
  /\ localStorage = [q \in Questions |-> IF q = 1 THEN Some(ResumeEntry) ELSE None]
  /\ timeouts = {}
  /\ shortcutCl = None
  /\ runCl = None
  /\ sub = None
  /\ sub2 = None
  /\ submissionsCol \in {InitialRows, ForeignRows}
  /\ reviewsCol = <<>>
  /\ userAssessments = None
  /\ now = 0
  /\ toast = ""
  /\ acts = MaxEvents - FinalEvents
  /\ fin = <<>>
  /\ usersDoc = UserDoc({CourseOf(AssessmentId)})
  /\ assessmentsCol = [a \in Assessments |-> Some(AssessmentDoc(a, 1))]
  /\ dash = None
  /\ asmt = None
  /\ SignedIn
  /\ ran = RanOfRows(submissionsCol) \cup RanOfCache(localStorage)

FinalNext ==
  \/ Enter \/ LoadAssessment \/ LoadQuestions \/ LoadSubmissions
  \/ RunStart \/ RunResponse
  \/ SubmitStart \/ SubmitResolve \/ SubmitReviewDone
  \/ CloseReview \/ CloseTab
  \/ FinalizeStart \/ FinalizeSnapshot \/ FinalizeCommit \/ FinalizeWrite \/ FinalizeFail

SpecFinal == FinalInit /\ [][FinalNext]_vars

(***************************************************************************)
(* The Dashboard, the Assessment page and the editor over the stores an    *)
(* admin and earlier sessions can have left: assessments exist or were     *)
(* deleted, with or without chances; the user is enrolled in the course of *)
(* the assessment or not, has rows or none, and completion entries or none.*)
(***************************************************************************)
AppEvents == 3

\* a payload a finalization wrote
CompletedEntry == Some([score |-> 50, avgExecMs |-> 3, completedAt |-> 0])

AppInit ==
  /\ engineIdle
  /\ route = "home"
  /\ ed = InitialEd(0)
  /\ loadPc = "none"
  /\ cacheKeyRef = 0
  /\ lastSaveRef = 0
  /\ localStorage = [q \in Questions |-> None]
  /\ timeouts = {}
  /\ shortcutCl = None
  /\ runCl = None
  /\ sub = None
  /\ sub2 = None
  /\ submissionsCol \in {InitialRows, ForeignRows}
  /\ reviewsCol = <<>>
  /\ userAssessments = None
  /\ now = 0
  /\ toast = ""
  /\ acts = MaxEvents - AppEvents
  /\ fin = <<>>
  /\ \E courses \in SUBSET {CourseOf(AssessmentId)},
        done \in [Assessments -> {None, CompletedEntry}] :
       usersDoc = [enrolledCourses |-> courses, assessmentsCompleted |-> done]
  /\ \E exists \in [Assessments -> BOOLEAN], chances \in [Assessments -> 0..MaxChances] :
       assessmentsCol = [a \in Assessments |->
                           IF exists[a] THEN Some(AssessmentDoc(a, chances[a])) ELSE None]
  /\ dash = None
  /\ asmt = None
  /\ SignedIn
  /\ ran = RanOfRows(submissionsCol) \cup RanOfCache(localStorage)

AppNext ==
  \/ DashFetch \/ DashStart \/ AsmtFetch \/ AsmtStart
  \/ Enter \/ LoadAssessment \/ LoadQuestions \/ LoadSubmissions
  \/ RunStart \/ RunResponse
  \/ SubmitStart \/ SubmitResolve
  \/ NavigateAway

SpecApp == AppInit /\ [][AppNext]_vars

(***************************************************************************)
(* The countdown under fairness: the interval keeps firing while it is     *)
(* set, requests are answered and timers fire; the user acts at most       *)
(* LiveEvents times and never restarts the session.                        *)
(***************************************************************************)
LiveEvents == 2

LiveInit ==
  /\ engineIdle
  /\ route = "home"
  /\ ed = InitialEd(0)
  /\ loadPc = "none"
  /\ cacheKeyRef = 0
  /\ lastSaveRef = 0
  /\ localStorage = [q \in Questions |-> IF q = 1 THEN Some(ResumeEntry) ELSE None]
  /\ timeouts = {}
  /\ shortcutCl = None
  /\ runCl = None
  /\ sub = None
  /\ sub2 = None
  /\ submissionsCol = InitialRows
  /\ reviewsCol = <<>>
  /\ userAssessments = None
  /\ now = 0
  /\ toast = ""
  /\ acts = MaxEvents - LiveEvents
  /\ fin = <<>>
  /\ usersDoc = UserDoc({CourseOf(AssessmentId)})
  /\ assessmentsCol = [a \in Assessments |-> Some(AssessmentDoc(a, 1))]
  /\ dash = None
  /\ asmt = None
  /\ SignedIn
  /\ ran = RanOfRows(submissionsCol) \cup RanOfCache(localStorage)

LiveTick == route = "code" /\ TickBody

LiveNext ==
  \/ Enter \/ LoadAssessment \/ LoadQuestions \/ LoadSubmissions \/ LoadFail
  \/ Edit \/ SaveProgress \/ ResetCode \/ QuestionChange
  \/ NavigateAway \/ CloseTab \/ IdleDay
  \/ LiveTick \/ TimeoutFire

SpecLive ==
  /\ LiveInit /\ [][LiveNext]_vars
  /\ WF_vars(LiveTick) /\ WF_vars(TimeoutFire)
  /\ WF_vars(LoadAssessment) /\ WF_vars(LoadQuestions) /\ WF_vars(LoadSubmissions)

(***************************************************************************)
(* The review of assessments of any length: the Submit of the last of n    *)
(* questions is in flight, the other questions have an accepted, a failed  *)
(* or no submission.                                                       *)
(***************************************************************************)
MaxReviewQuestions == 6

\* the latest row of question q, accepted or not
ReviewRow(q, ok) ==
  [PriorRow(q, IF ok THEN PistonOk(<<"a">>, 3) ELSE PistonOk(<<"b", "\n">>, 4), 30)
     EXCEPT !.questionId = q, !.language = Question(q).language]

\* the result of the Run of question q before the Submit
ReviewResults(q) ==
  IF Question(q).language = "sql"
  THEN {Aggregate(<<ExecuteCase("sql", SqlTest, o)>>) : o \in SessionSqlOutcomes}
  ELSE {Aggregate(<<ExecuteCase("python", PythonTest, r)>>) : r \in SessionResponses}

ReviewInit ==
  /\ engineIdle
  /\ \E n \in 1..MaxReviewQuestions :
     \E status \in [1..(n - 1) -> {"", "accepted", "wrong_answer"}] :
     \E result \in ReviewResults(n) :
       LET rows == [q \in 1..MaxReviewQuestions |->
                      IF q < n /\ status[q] # ""
                      THEN Some(ReviewRow(q, status[q] = "accepted")) ELSE None]
           e    == [InitialEd(n) EXCEPT
                      !.assessment = TRUE, !.questions = [i \in 1..n |-> i],
                      !.currentQuestion = n, !.currentQuestionIndex = n - 1,
                      !.code = StarterOrDefault(n), !.loading = FALSE, !.submitting = TRUE,
                      !.testResults = Some(result), !.timeRemaining = Some(TimeLimit * 60),
                      !.sessionStartTime = Some(0), !.submissions = rows]
       IN  /\ ed = e
           /\ sub = Some([e |-> e, subData |-> SubData(e, 0), pc |-> "addDoc",
                          review |-> None, live |-> TRUE, key |-> 0])
           /\ sub2 = None
           /\ cacheKeyRef = n
           /\ submissionsCol = <<>>
           /\ ran = {RanOf(e.code, result)}
  /\ route = "code"
  /\ loadPc = "done"
  /\ lastSaveRef = 0
  /\ localStorage = [q \in 1..MaxReviewQuestions |-> None]
  /\ timeouts = {}
  /\ shortcutCl = None
  /\ runCl = None
  /\ reviewsCol = <<>>
  /\ userAssessments = None
  /\ now = 0
  /\ toast = ""
  /\ acts = MaxEvents
  /\ fin = <<>>
  /\ usersDoc = UserDoc({CourseOf(AssessmentId)})
  /\ assessmentsCol = [a \in Assessments |-> Some(AssessmentDoc(a, 1))]
  /\ dash = None
  /\ asmt = None
  /\ SignedIn

ReviewNext == SubmitResolve \/ SubmitReviewDone

SpecReview == ReviewInit /\ [][ReviewNext]_vars

(***************************************************************************)
(* Sessions with a second Submit trigger while a Submit is in flight.      *)
(***************************************************************************)
DoubleEvents == 4

DoubleInit ==
  /\ engineIdle
  /\ route = "home"
  /\ ed = InitialEd(0)
  /\ loadPc = "none"
  /\ cacheKeyRef = 0
  /\ lastSaveRef = 0
  /\ localStorage = [q \in Questions |-> IF q = 1 THEN Some(ResumeEntry) ELSE None]
  /\ timeouts = {}
  /\ shortcutCl = None
  /\ runCl = None
  /\ sub = None
  /\ sub2 = None
  /\ submissionsCol \in {InitialRows, ForeignRows}
  /\ reviewsCol = <<>>
  /\ userAssessments = None
  /\ now = 0
  /\ toast = ""
  /\ acts = MaxEvents - DoubleEvents
  /\ fin = <<>>
  /\ usersDoc = UserDoc({CourseOf(AssessmentId)})
  /\ assessmentsCol = [a \in Assessments |-> Some(AssessmentDoc(a, 1))]
  /\ dash = None
  /\ asmt = None
  /\ SignedIn
  /\ ran = RanOfRows(submissionsCol) \cup RanOfCache(localStorage)

DoubleNext ==
  \/ Enter \/ LoadAssessment \/ LoadQuestions \/ LoadSubmissions \/ MonacoMount
  \/ RunStart \/ RunResponse
  \/ SubmitStart \/ SubmitResolve \/ SubmitReject \/ SubmitReviewDone
  \/ SubmitAgain \/ SubmitAgainResolve \/ SubmitAgainReject \/ SubmitAgainReviewDone

SpecDouble == DoubleInit /\ [][DoubleNext]_vars

(***************************************************************************)
(* An assessment whose second question has no test cases, opened on either *)
(* question and loaded.                                                    *)
(***************************************************************************)
EmptyEvents == 4

EmptyQuestions == <<1, NoTests>>

EmptyInit ==
  /\ engineIdle
  /\ \E q \in {1, NoTests} :
       LET ids    == Questions \cup {NoTests}
           first  == [InitialEd(q) EXCEPT !.assessment = TRUE,
                                         !.timeRemaining = Some(TimeLimit * 60),
                                         !.sessionStartTime = Some(0),
                                         !.submissions = [k \in ids |-> None]]
           loaded == [first EXCEPT !.questions = EmptyQuestions,
                                   !.currentQuestionIndex = IndexOf(EmptyQuestions, q),
                                   !.currentQuestion = q, !.loading = FALSE]
           c      == Commit([ls |-> [k \in ids |-> IF k = 1 THEN Some(ResumeEntry) ELSE None],
                             key |-> 0, lastSave |-> 0], first, loaded, FALSE, 0, "")
       IN  /\ ed = c.ed
           /\ localStorage = c.st.ls
           /\ cacheKeyRef = c.st.key
           /\ lastSaveRef = c.st.lastSave
           /\ toast = c.toast
  /\ route = "code"
  /\ loadPc = "done"
  /\ timeouts = {}
  /\ shortcutCl = None
  /\ runCl = None
  /\ sub = None
  /\ sub2 = None
  /\ submissionsCol = InitialRows
  /\ reviewsCol = <<>>
  /\ userAssessments = None
  /\ now = 0
  /\ acts = MaxEvents - EmptyEvents
  /\ fin = <<>>
  /\ usersDoc = UserDoc({CourseOf(AssessmentId)})
  /\ assessmentsCol = [a \in Assessments |-> Some(AssessmentDoc(a, 1))]
  /\ dash = None
  /\ asmt = None
  /\ SignedIn
  /\ ran = RanOfRows(submissionsCol) \cup {RanOf(<<"x">>, ResumeResults)}

EmptyNext ==
  \/ Edit \/ SaveProgress \/ ResetCode \/ QuestionChange
  \/ RunStart \/ RunResponse
  \/ SubmitStart \/ SubmitResolve \/ SubmitReject \/ SubmitReviewDone

SpecEmpty == EmptyInit /\ [][EmptyNext]_vars

(***************************************************************************)
(* Authentication: AuthProvider and ProtectedRoute.                        *)
(***************************************************************************)
\* every variable of the pages but the notification and the event count
pageVars == <<route, ed, loadPc, cacheKeyRef, lastSaveRef, localStorage, timeouts, shortcutCl,
              runCl, sub, sub2, submissionsCol, reviewsCol, userAssessments, now, fin,
              otherVars, ran>>

\* JavaScript values with their type
JsString(s) == [t |-> "string", v |-> s]
JsBoolean(b) == [t |-> "boolean", v |-> b]
JsUndefined == [t |-> "undefined", v |-> FALSE]

\* userProfile?.role
RoleOf(p) == IF p = None THEN JsUndefined ELSE JsString(p[1].role)

ToBoolean(x) ==
  CASE x.t = "undefined" -> FALSE
    [] x.t = "string" -> x.v # ""
    [] x.t = "boolean" -> x.v

\* !x
JsNot(x) == JsBoolean(~ToBoolean(x))

\* a === b
StrictEquals(a, b) == a.t = b.t /\ a.v = b.v

\* isAdmin()
isAdmin == StrictEquals(RoleOf(userProfile), JsString("admin"))

\* what <ProtectedRoute adminOnly={adminOnly}> renders
ProtectedRoute(adminOnly) ==
  IF loading THEN "LoadingSpinner"
  ELSE IF user = None THEN "/login"
  ELSE IF adminOnly /\ StrictEquals(JsNot(RoleOf(userProfile)), JsString("admin")) THEN "/"
  ELSE "children"

\* the callback of onAuthStateChanged called with null
SignedOutState ==
  /\ user' = None
  /\ userProfile' = None
  /\ loading' = FALSE

\* login from the AuthPage, which AppContent renders once loading is over:
\* signInWithEmailAndPassword resolves, the callback runs up to its getDoc
Login ==
  /\ Act
  /\ ~loading
  /\ \E a \in Accounts :
       /\ authUser # Some(a)
       /\ authUser' = Some(a)
       /\ authCalls' = Append(authCalls, [uid |-> a])
  /\ toast' = "Welcome back!"
  /\ UNCHANGED <<execVars, pageVars, user, userProfile, loading>>

\* login: signInWithEmailAndPassword rejects
LoginFail ==
  /\ Act
  /\ ~loading
  /\ toast' = "Invalid email or password"
  /\ UNCHANGED <<execVars, pageVars, authVars>>

\* logout from the Navbar, which is rendered only with a user
Logout ==
  /\ Act
  /\ ~loading
  /\ user # None
  /\ authUser' = None
  /\ IF authUser # None THEN SignedOutState ELSE UNCHANGED <<user, userProfile, loading>>
  /\ toast' = "Logged out successfully"
  /\ UNCHANGED <<execVars, pageVars, authCalls>>

\* getDoc(users/{uid}) resolves with an existing document
ProfileFound ==
  /\ UNCHANGED acts
  /\ \E i \in 1..Len(authCalls) :
       /\ Profile(authCalls[i].uid) # None
       /\ user' = Some(authCalls[i].uid)
       /\ userProfile' = Profile(authCalls[i].uid)
       /\ authCalls' = RemoveAt(authCalls, i)
  /\ loading' = FALSE
  /\ UNCHANGED <<execVars, pageVars, authUser, toast>>

\* getDoc(users/{uid}) resolves without a document: signOut(auth)
ProfileMissing ==
  /\ UNCHANGED acts
  /\ \E i \in 1..Len(authCalls) :
       /\ Profile(authCalls[i].uid) = None
       /\ authCalls' = RemoveAt(authCalls, i)
  /\ toast' = "User profile not found. Please contact admin."
  /\ authUser' = None
  /\ IF authUser # None THEN SignedOutState
     ELSE loading' = FALSE /\ UNCHANGED <<user, userProfile>>
  /\ UNCHANGED <<execVars, pageVars>>

\* getDoc(users/{uid}) rejects
ProfileError ==
  /\ Act
  /\ \E i \in 1..Len(authCalls) : authCalls' = RemoveAt(authCalls, i)
  /\ toast' = "Failed to load user profile"
  /\ loading' = FALSE
  /\ UNCHANGED <<execVars, pageVars, authUser, user, userProfile>>

AuthEvents == 4

\* the provider has mounted: Firebase reports the persisted user, or none
AuthInit ==
  /\ engineIdle
  /\ route = "home"
  /\ ed = InitialEd(0)
  /\ loadPc = "none"
  /\ cacheKeyRef = 0
  /\ lastSaveRef = 0
  /\ localStorage = [q \in Questions |-> None]
  /\ timeouts = {}
  /\ shortcutCl = None
  /\ runCl = None
  /\ sub = None
  /\ sub2 = None
  /\ submissionsCol = InitialRows
  /\ reviewsCol = <<>>
  /\ userAssessments = None
  /\ now = 0
  /\ toast = ""
  /\ acts = MaxEvents - AuthEvents
  /\ fin = <<>>
  /\ usersDoc = UserDoc({CourseOf(AssessmentId)})
  /\ assessmentsCol = [a \in Assessments |-> Some(AssessmentDoc(a, 1))]
  /\ dash = None
  /\ asmt = None
  /\ ran = RanOfRows(submissionsCol)
  /\ authUser \in {None} \cup {Some(a) : a \in Accounts}
  /\ user = None
  /\ userProfile = None
  /\ loading = (authUser # None)
  /\ authCalls = IF authUser = None THEN <<>> ELSE <<[uid |-> authUser[1]]>>

AuthNext ==
  \/ Login
  \/ LoginFail
  \/ Logout
  \/ ProfileFound
  \/ ProfileMissing
  \/ ProfileError

SpecAuth == AuthInit /\ [][AuthNext]_vars


(***************************************************************************)
(* Properties of the execution engine                                      *)
(***************************************************************************)
Returned == exPc = "returned"
Result == exOut[1]

\* C1: every result of executeCode has 0 <= passedTests <= totalTests, score equal to
\* round(100 * passedTests / totalTests) (0 when there is no test case), 0 <= score <= 100
C1_ScoreIsRoundedPercentage ==
  Returned =>
    /\ 0 <= Result.passedTests /\ Result.passedTests <= Result.totalTests
    /\ Result.score = IF Result.totalTests > 0
                      THEN ExactRound(Result.passedTests, Result.totalTests) ELSE 0
    /\ 0 <= Result.score /\ Result.score <= 100

\* whether the back end ran the test case to a successful end
Succeeded(language, resp) ==
  /\ ~resp.throws
  /\ ToLowerCase(language) # "sql" => resp.code = <<"0">>
  /\ ToLowerCase(language) = "java" => OrStr(resp.compileStderr, <<>>) = <<>>

OutputsEqual(r) == Trim(r.actual) = Trim(OrStr(r.expected, <<>>))

\* C2 (as claimed): a test case passes if and only if the trimmed actual output equals
\* the trimmed expected output
C2_PassedIffOutputsEqual ==
  \A i \in 1..Len(exResults) : exResults[i].passed <=> OutputsEqual(exResults[i])

\* C2 (amended): a test case passes if and only if its execution succeeded (no API or
\* SQL error, exit code 0, no compiler stderr for Java) and the trimmed outputs are equal
C2_PassedIffSucceededAndEqual ==
  \A i \in 1..Len(exResults) :
    exResults[i].passed <=> (Succeeded(exLang, exResps[i]) /\ OutputsEqual(exResults[i]))

C2_Witness ==
  /\ Returned
  /\ \E i \in 1..Len(exResults) : exResults[i].passed /\ exResps[i].stdout # exTests[i].expectedOutput
  /\ \E i \in 1..Len(exResults) : ~Succeeded(exLang, exResps[i]) /\ OutputsEqual(exResults[i])

\* C3: the status of a result is "accepted" exactly when every test case passed
\* (passedTests = totalTests) and "wrong_answer" otherwise
C3_StatusAcceptedIffAllPassed ==
  Returned =>
    /\ Result.status \in {"accepted", "wrong_answer"}
    /\ Result.status = "accepted" <=> Result.passedTests = Result.totalTests
    /\ Result.status = "accepted" <=> \A i \in 1..Len(Result.testCases) : Result.testCases[i].passed

C3_Witness ==
  /\ Returned
  /\ Result.status = "wrong_answer"
  /\ Result.passedTests > 0

\* C4: a run returns one result per test case, in the order of the test cases; a failing
\* test case is recorded as not passed with a non-empty error message, and the test
\* cases after it are evaluated all the same
C4_IndependentEvaluation ==
  /\ Returned =>
       /\ Len(Result.testCases) = Len(exTests)
       /\ Len(exResps) = Len(exTests)
  /\ \A i \in 1..Len(exResults) :
       /\ exResults[i].input = OrStr(exTests[i].input, <<>>)
       /\ exResults[i].expected = exTests[i].expectedOutput
       /\ ~exResps[i].throws => exResults[i].executionTime = exResps[i].ms
       /\ ~exResults[i].passed => (exResults[i].error # Null /\ Len(exResults[i].error) > 0)
       /\ ~Succeeded(exLang, exResps[i]) => ~exResults[i].passed

C4_Witness ==
  /\ Returned
  /\ Len(exTests) = 2
  /\ exResps[1].throws
  /\ ~Result.testCases[1].passed
  /\ Result.testCases[2].passed
(***************************************************************************)
(* Properties of the session                                               *)
(***************************************************************************)
\* the state of the tab and of the store apart from the notification
quietVars == <<route, ed, loadPc, cacheKeyRef, lastSaveRef, localStorage, timeouts, shortcutCl,
               runCl, sub, submissionsCol, reviewsCol, userAssessments, now>>

\* C5: when the editor holds no test results, Submit starts no submission (so it writes
\* no row, clears no cache entry and does not navigate), and a refused Submit changes
\* nothing but the notification
C5_SubmitRequiresRun ==
  [][ /\ (sub = None /\ sub' # None) => ed.testResults # None
      /\ (toast' = "Please run your code first" /\ toast' # toast) => UNCHANGED quietVars ]_vars

\* a step in which the restore effect ran for the question q of the route
RestoreStep ==
  /\ route' = "code" /\ cacheKeyRef' # 0
  /\ ed'.questionId # ed.questionId \/ ed'.questions # ed.questions
  /\ IndexOf(ed'.questions, ed'.questionId) >= 0

\* the same step cleared the entry of that question before the effect loaded it
ClearedFirst == sub # None /\ sub' = None /\ RefKey(sub[1]) = ed'.questionId

\* the entry the restore effect of this step finds, saved for the question it is stored under
EntryToRestore == GetCacheData(localStorage, ed'.questionId)

RestoresEntry ==
  /\ RestoreStep /\ ~ClearedFirst
  /\ EntryToRestore # None
  /\ EntryToRestore[1].questionId = ed'.questionId

\* C6 (as claimed): entering a question whose session state was saved less than 24 hours
\* before restores exactly the saved code, timeRemaining and testResults
C6_RoundTripExact ==
  [][ (RestoresEntry /\ now - EntryToRestore[1].lastSaved < MaxAge) =>
        /\ ed'.code = EntryToRestore[1].code
        /\ ed'.timeRemaining = EntryToRestore[1].timeRemaining
        /\ ed'.testResults = EntryToRestore[1].testResults ]_vars

\* C6 (amended): entering a question whose session state was saved less than 24 hours
\* before restores exactly the saved timeRemaining and testResults, and the saved code
\* when it is not empty; an empty saved code is replaced by the starter (or default) code
C6_RoundTripNonEmptyCode ==
  [][ (RestoresEntry /\ now - EntryToRestore[1].lastSaved < MaxAge) =>
        /\ ed'.code = IF EntryToRestore[1].code = <<>>
                      THEN StarterOrDefault(ed'.questionId) ELSE EntryToRestore[1].code
        /\ ed'.timeRemaining = EntryToRestore[1].timeRemaining
        /\ ed'.testResults = EntryToRestore[1].testResults ]_vars

\* question 2 has no entry at first: what is restored there was saved in this behaviour
C6_Witness ==
  /\ route = "code" /\ ed.questionId = 2 /\ ed.currentQuestion = 2
  /\ ed.isFromCache /\ ed.code = <<"x">> /\ ed.timeRemaining = Some(TimeLimit * 60)

\* C7: loading an entry saved more than 24 hours before returns nothing and removes it
\* (it is never restored); loading an entry at most 24 hours old returns it unchanged
\* and leaves the storage as it is (and it is restored when it was saved for the question)
C7_CacheExpiry ==
  [][ /\ \A k \in Questions :
           LET e == GetCacheData(localStorage, k)
               r == LoadFromCache([ls |-> localStorage, key |-> k, lastSave |-> lastSaveRef], now)
           IN  e # None =>
                 IF now - e[1].lastSaved > MaxAge
                 THEN /\ r.cached = None
                      /\ r.st.ls = [localStorage EXCEPT ![k] = None]
                 ELSE /\ r.cached = e
                      /\ r.st.ls = localStorage
      /\ (RestoreStep /\ ~ClearedFirst /\ EntryToRestore # None) =>
           IF now - EntryToRestore[1].lastSaved > MaxAge
           THEN /\ ~ed'.isFromCache
                /\ ed'.code = StarterOrDefault(ed'.questionId)
                /\ ed'.testResults = None
                /\ localStorage'[ed'.questionId] # localStorage[ed'.questionId]
           ELSE EntryToRestore[1].questionId = ed'.questionId =>
                  /\ ed'.isFromCache
                  /\ ed'.timeRemaining = EntryToRestore[1].timeRemaining
                  /\ ed'.testResults = EntryToRestore[1].testResults ]_vars

\* a day and a second after the entry of question 1 was saved, question 1 was entered
C7_Witness ==
  /\ acts = 2 /\ DaysSoFar = 1 /\ TicksSoFar >= 1
  /\ route = "code" /\ ed.questionId = 1 /\ ed.currentQuestion = 1
  /\ ~ed.isFromCache /\ ed.code = StarterOrDefault(1) /\ ed.testResults = None

\* C8: a tick happens only while the editor is open with timeRemaining > 0 and lowers
\* timeRemaining by exactly 1, or at 1 forces the user out of the assessment;
\* timeRemaining is never below 0; and under fair ticking without Restart Session an
\* open editor with time remaining is eventually closed
C8_Countdown ==
  /\ [][ now' = now + TickMs =>
           /\ route = "code" /\ ed.timeRemaining # None /\ ed.timeRemaining[1] > 0
           /\ IF ed.timeRemaining[1] = 1
              THEN route' # "code" /\ toast' = "Time's up! Assessment ended."
              ELSE route' = "code" /\ ed'.timeRemaining = Some(ed.timeRemaining[1] - 1) ]_vars
  /\ [](ed.timeRemaining # None => ed.timeRemaining[1] >= 0)
  /\ (route = "code" /\ ed.timeRemaining # None /\ ed.timeRemaining[1] > 0) ~> (route # "code")

\* C9: a Submit that is accepted carries the results the editor holds (status, score,
\* passedTests, totalTests, per-test results) and the elapsed time; when its write
\* succeeds with the editor open, the editor moves to the question after the submitted
\* one, or for the last question the review is built and then shown; when the write
\* fails there is no row, no navigation and no review
C9_SubmitPersistsLatestRun ==
  [][ /\ (sub = None /\ sub' # None) =>
           /\ ed.testResults # None
           /\ sub'[1].subData.status = ed.testResults[1].status
           /\ sub'[1].subData.score = ed.testResults[1].score
           /\ sub'[1].subData.passedTests = ed.testResults[1].passedTests
           /\ sub'[1].subData.totalTests = ed.testResults[1].totalTests
           /\ sub'[1].subData.testCasesResults = ed.testResults[1].testCases
           /\ ed.sessionStartTime # None
           /\ sub'[1].subData.timeSpent = (now - ed.sessionStartTime[1]) \div 1000
      /\ (Len(submissionsCol') > Len(submissionsCol) /\ route = "code" /\ route' = "code") =>
           LET row == submissionsCol'[Len(submissionsCol')]
               i   == IndexOf(AssessmentQuestions, row.questionId)
           IN  /\ [row EXCEPT !.submissionId = 0] = sub[1].subData
               /\ IF i < Len(AssessmentQuestions) - 1
                  THEN ed'.questionId = AssessmentQuestions[i + 2]
                  ELSE sub' # None /\ sub'[1].review # None
      /\ (sub # None /\ sub[1].pc = "review" /\ sub[1].live /\ sub' = None /\ route' = "code") =>
           ed'.showReview /\ ed'.assessmentReview = sub[1].review
      /\ (toast' = "Failed to submit solution" /\ toast' # toast) =>
           /\ submissionsCol' = submissionsCol
           /\ route' = route /\ ed'.questionId = ed.questionId
           /\ ed'.showReview = ed.showReview /\ ed'.assessmentReview = ed.assessmentReview ]_vars

\* the status of the latest stored submission of question q ("" when there is none)
LatestStatus(q) ==
  LET mine == Mine(submissionsCol)
      rows == {i \in 1..Len(mine) : mine[i].questionId = q}
  IN  IF rows = {} THEN ""
      ELSE mine[CHOOSE i \in rows : \A j \in rows : j <= i].status

\* C10: in a review that was built, each item earns round(100/N) points if and only if
\* the latest submission of its question is accepted and 0 otherwise, and totalScore is
\* round(100/N) times the number of accepted questions, which is the sum of earnedPoints
C10_EqualWeightReviewScore ==
  (sub # None /\ sub[1].pc = "review") =>
    LET review   == sub[1].review[1]
        N        == review.totalQuestions
        points   == (200 + N) \div (2 * N)
        accepted == {i \in 1..N : LatestStatus(review.items[i].questionId) = "accepted"}
    IN  N > 0 =>
          /\ \A i \in 1..N :
               review.items[i].earnedPoints = IF i \in accepted THEN points ELSE 0
          /\ review.totalScore = points * Cardinality(accepted)
          /\ review.totalScore = SumEarned(review.items)

\* the rows of other users and of other assessments
Others(col) == SelectSeq(col, LAMBDA r : ~(r.userId = Uid /\ r.assessmentId = AssessmentId))

\* the step in which call i of cleanupSubmissionsAndPersistScore returns without error
Finalized(i) ==
  /\ i \in 1..Len(fin) /\ fin[i].pc = "update"
  /\ fin' = RemoveAt(fin, i) /\ acts' = acts
  /\ toast' = "Saved score and cleaned up submissions"

\* C11: when finalization completes without error, no row of the user and assessment
\* remains in submissions, assessmentsCompleted[assessment] of users/{uid} holds the
\* score (the review's totalScore), avgExecMs and completedAt, and the rows of other
\* users and assessments are as they were
C11_FinalizationLeavesNoRows ==
  [][ \A i \in 1..MaxFinalize :
        Finalized(i) =>
          /\ Mine(submissionsCol') = <<>>
          /\ usersDoc'.assessmentsCompleted[AssessmentId] # None
          /\ usersDoc'.assessmentsCompleted[AssessmentId][1].score = fin[i].review.totalScore
          /\ DOMAIN usersDoc'.assessmentsCompleted[AssessmentId][1] =
               {"score", "avgExecMs", "completedAt"}
          /\ Others(submissionsCol') = ForeignRows ]_vars

\* the step in which the Dashboard has fetched
Fetched == dash = None /\ dash' # None

\* C12: a card is shown completed exactly when assessmentsCompleted holds an entry with a
\* numeric score for it; a completed card shows that entry's score and counts no rows
\* as attempts; the stats report as many completed assessments as cards are shown
\* completed
C12_CompletedFromUserMap ==
  [][ Fetched =>
        LET cards == dash'[1].assessments
        IN  /\ \A a \in DOMAIN cards :
                  /\ cards[a].isCompleted <=>
                       (usersDoc.assessmentsCompleted[a] # None
                          /\ usersDoc.assessmentsCompleted[a][1].score \in Int)
                  /\ cards[a].isCompleted =>
                       /\ cards[a].userScore = usersDoc.assessmentsCompleted[a][1].score
                       /\ cards[a].chancesUsed = 0
            /\ dash'[1].userStats.completedAssessments =
                 Cardinality({a \in DOMAIN cards : cards[a].isCompleted}) ]_vars

\* the rows of the user for the assessment a
RowsFor(a) == SelectSeq(submissionsCol, LAMBDA r : r.userId = Uid /\ r.assessmentId = a)

\* C13: on every card not completed chancesRemaining is max(0, chances - rows of the
\* user for the assessment), chances being 1 when the document has none, and the
\* Dashboard opens an assessment only while its chancesRemaining is above 0
C13_AttemptLimit ==
  [][ /\ Fetched =>
          \A a \in DOMAIN dash'[1].assessments :
            LET card    == dash'[1].assessments[a]
                chances == IF card.chances = 0 THEN 1 ELSE card.chances
                left    == chances - Len(RowsFor(a))
            IN  ~card.isCompleted => card.chancesRemaining = IF left > 0 THEN left ELSE 0
      /\ (route = "home" /\ route' = "assessment") =>
          dash[1].assessments[asmt'[1].id].chancesRemaining > 0 ]_vars

\* the user is in the editor of a question and can run it or submit it
CanRunOrSubmit == route = "code" /\ ~ed.loading /\ ed.currentQuestion # 0

\* C14: while the assessment does not exist or the user is not enrolled in its course,
\* the user is never in the editor of one of its questions
C14_FatalConditionsRedirect ==
  (\/ assessmentsCol[AssessmentId] = None
   \/ assessmentsCol[AssessmentId][1].courseId \notin usersDoc.enrolledCourses)
    => ~CanRunOrSubmit

\* how the error string of a test case result begins ("" when it has none)
ErrorPrefix(r) == IF r.error = Null \/ Len(r.error) = 0 THEN "" ELSE r.error[1]

CompilerComplained(resp) ==
  ToLowerCase(exLang) = "java" /\ OrStr(resp.compileStderr, <<>>) # <<>>

\* C15: for Python and Java, an answered execution with a compiler stderr (Java) is
\* recorded as failed with a compilation error string, one with an exit code that is
\* missing or not 0 as failed with a runtime error string, whatever stdout holds; a
\* test case passes only with exit code 0
C15_FailedExecutionNeverPasses ==
  ToLowerCase(exLang) \in {"python", "java"} =>
    \A i \in 1..Len(exResults) :
      LET resp == exResps[i]
          r    == exResults[i]
      IN  /\ (~resp.throws /\ CompilerComplained(resp)) =>
               ~r.passed /\ ErrorPrefix(r) = "Compilation Error: "
          /\ (~resp.throws /\ ~CompilerComplained(resp) /\ resp.code # <<"0">>) =>
               ~r.passed /\ ErrorPrefix(r) = "Runtime Error: "
          /\ r.passed => (~resp.throws /\ resp.code = <<"0">>)

\* a Java run that compiled with a complaint, exited with 0 and printed the expected
\* output, and a Python run without exit code, have been recorded
C15_Witness ==
  /\ Returned
  /\ \E i \in 1..Len(exResults) :
       /\ CompilerComplained(exResps[i]) /\ exResps[i].code = <<"0">>
       /\ OutputsEqual(exResults[i]) /\ ~exResults[i].passed
  /\ \E i \in 1..Len(exResults) :
       exResps[i].code = Null /\ OutputsEqual(exResults[i]) /\ ~exResults[i].passed

\* the entry the restore effect of this step restores: found under the key, saved for
\* the question and at most 24 hours old
RestoresFresh == RestoresEntry /\ now - EntryToRestore[1].lastSaved <= MaxAge

\* the remaining times of the sessions in progress: of the mounted editor when the
\* question changes in place, of the entries at most 24 hours old in the cache when
\* the editor has just been mounted
InProgressTimes ==
  IF ed.currentQuestion # 0 THEN {ed.timeRemaining}
  ELSE {GetCacheData(localStorage, k)[1].timeRemaining :
          k \in {j \in Questions : /\ GetCacheData(localStorage, j) # None
                                    /\ now - GetCacheData(localStorage, j)[1].lastSaved <= MaxAge}}

\* C16: entering a question restores code, timeRemaining and testResults from a cache
\* entry saved for it that is not expired; without such an entry the code is the
\* starter (or default) code, testResults is empty, and the remaining time of a session
\* in progress is kept (the timer is not reset to the full limit)
C16_EnterQuestion ==
  [][ (RestoreStep /\ ~ClearedFirst) =>
        IF RestoresFresh
        THEN /\ ed'.code = EntryToRestore[1].code
             /\ ed'.timeRemaining = EntryToRestore[1].timeRemaining
             /\ ed'.testResults = EntryToRestore[1].testResults
        ELSE /\ ed'.code = StarterOrDefault(ed'.questionId)
             /\ ed'.testResults = None
             /\ InProgressTimes # {} => ed'.timeRemaining \in InProgressTimes ]_vars

\* the step in which the addDoc of a Submit resolved
Submitted ==
  /\ sub # None /\ sub[1].pc = "addDoc" /\ acts' = acts
  /\ sub' = None \/ sub'[1].pc = "review"
  /\ toast' = "Solution submitted"

\* C17: a successful Submit appends exactly one row, the submission's, to the
\* collection and leaves every existing row as it is, so each further Submit leaves
\* one more row
C17_SubmitAppendsOneRow ==
  [][ Submitted =>
        /\ Len(submissionsCol') = Len(submissionsCol) + 1
        /\ SubSeq(submissionsCol', 1, Len(submissionsCol)) = submissionsCol
        /\ [submissionsCol'[Len(submissionsCol')] EXCEPT !.submissionId = 0] = sub[1].subData
        /\ \A i \in 1..Len(submissionsCol) :
             submissionsCol[i].submissionId # submissionsCol'[Len(submissionsCol')].submissionId
    ]_vars

\* two Submits succeeded in this session, the first for a question that already had rows
C17_Witness ==
  /\ Len(submissionsCol) = Len(InitialRows) + 2
  /\ SubSeq(submissionsCol, 1, Len(InitialRows)) = InitialRows
  /\ submissionsCol[Len(InitialRows) + 1].questionId = 1
  /\ submissionsCol[Len(InitialRows) + 2].questionId = 2

\* the items of a review whose question has a submission
Attempted(review) == {i \in 1..Len(review.items) : review.items[i].status # ""}

RECURSIVE SumOver(_, _)
SumOver(review, is) ==
  IF is = {} THEN 0
  ELSE LET i == CHOOSE x \in is : TRUE
       IN  review.items[i].executionTimeMs + SumOver(review, is \ {i})

\* the mean execution time per attempted question, rounded to the nearest integer
\* (halves upwards)
MeanAttempted(review) ==
  LET n == Cardinality(Attempted(review))
  IN  IF n = 0 THEN 0 ELSE (2 * SumOver(review, Attempted(review)) + n) \div (2 * n)

\* C18: the avgExecMs a finalization writes is the rounded mean, over the questions of
\* the review that have a submission (accepted or not), of their summed test-case
\* execution times; questions without submission do not count; 0 when there is none
C18_AvgExecOverAttempted ==
  [][ \A i \in 1..MaxFinalize :
        Finalized(i) =>
          usersDoc'.assessmentsCompleted[AssessmentId][1].avgExecMs =
            MeanAttempted(fin[i].review) ]_vars

\* the ids of the rows of a collection
Ids(col) == {col[j].submissionId : j \in 1..Len(col)}

\* the step in which batch.commit() of call i resolves
Committed(i) ==
  /\ i \in 1..Len(fin) /\ fin[i].pc = "commit"
  /\ Len(fin') = Len(fin) /\ fin'[i].pc = "update" /\ acts' = acts

\* the step in which call i ends in the catch after its deletes have committed
WriteFailed(i) ==
  /\ i \in 1..Len(fin) /\ fin[i].pc = "update"
  /\ fin' = RemoveAt(fin, i) /\ acts' = acts
  /\ toast' # "Saved score and cleaned up submissions"

\* the step in which the client stops while a call waits for its write
StoppedInWrite ==
  /\ acts' # acts /\ route = "code" /\ route' = "home"
  /\ \E i \in 1..Len(fin) : fin[i].pc = "update"
  /\ fin' = <<>> /\ ed' = InitialEd(0)

\* C19: finalization deletes, then writes, and is not atomic: the commit of the deletes
\* removes the rows and leaves users/{uid} alone; when the write then fails, the rows
\* stay deleted, users/{uid} is as it was, the call is over (no retry) and only the
\* error is reported; when the client stops instead, no deleted row comes back, no
\* call goes on, and users/{uid} is as it was unless the write already sent arrives
C19_DeleteThenWrite ==
  [][ /\ \A i \in 1..MaxFinalize :
           /\ Committed(i) =>
                /\ Ids(submissionsCol') = Ids(submissionsCol) \ fin[i].docs
                /\ usersDoc' = usersDoc
           /\ WriteFailed(i) =>
                /\ submissionsCol' = submissionsCol
                /\ usersDoc' = usersDoc
                /\ toast' = "Cleanup failed"
      /\ StoppedInWrite =>
           /\ Ids(submissionsCol') \subseteq Ids(submissionsCol) \cup {NextId(submissionsCol)}
           /\ \/ usersDoc' = usersDoc
              \/ \E i \in 1..Len(fin) :
                   /\ fin[i].pc = "update"
                   /\ usersDoc' = [usersDoc EXCEPT !.assessmentsCompleted[AssessmentId] =
                                                     fin[i].payload] ]_vars

\* the result of an attempt is lost: the review of a session with a solved question is
\* on screen, the call has failed, the user's rows are gone and no entry was written
C19_Witness ==
  /\ fin = <<>> /\ toast = "Cleanup failed"
  /\ ed.showReview /\ ed.assessmentReview # None /\ ed.assessmentReview[1].completedCount > 0
  /\ Mine(submissionsCol) = <<>>
  /\ usersDoc.assessmentsCompleted[AssessmentId] = None

\* C20: Restart Session leaves no cache entry under the current key, the starter code
\* in the editor, no test results and the full time limit on the timer; the entries of
\* the other questions and the Submission rows are as before
C20_RestartSession ==
  [][ RestartSession =>
        /\ cacheKeyRef # 0 => localStorage'[cacheKeyRef] = None
        /\ ed'.code = StarterOrDefault(ed.currentQuestion)
        /\ ed'.testResults = None
        /\ ed'.timeRemaining = Some(TimeLimit * 60)
        /\ \A q \in Questions \ {cacheKeyRef} : localStorage'[q] = localStorage[q]
        /\ submissionsCol' = submissionsCol ]_vars

\* C21: Reset leaves the starter (or default) code and no test results, in the editor
\* and in the cache entry of the current key, and leaves timeRemaining as it was
C21_ResetCode ==
  [][ ResetCode =>
        /\ ed'.code = StarterOrDefault(ed.currentQuestion)
        /\ ed'.testResults = None
        /\ ed'.timeRemaining = ed.timeRemaining
        /\ cacheKeyRef # 0 =>
             /\ GetCacheData(localStorage', cacheKeyRef) # None
             /\ GetCacheData(localStorage', cacheKeyRef)[1].code =
                  StarterOrDefault(ed.currentQuestion)
             /\ GetCacheData(localStorage', cacheKeyRef)[1].testResults = None ]_vars

\* the test-case results tcs are results of the test cases of question q
ResultsOf(tcs, q) ==
  /\ Len(tcs) = Len(Question(q).testCases)
  /\ \A i \in 1..Len(tcs) : tcs[i].input = OrStr(Question(q).testCases[i].input, <<>>)

\* C22: the testResults of the editor are results of the question displayed, the
\* testResults of a cache entry are results of the question of its key, and the
\* testCasesResults of a Submission row are results of the row's question: the result
\* of a Run of one question never ends up with another question
C22_ResultsBelongToQuestion ==
  /\ (route = "code" /\ ed.currentQuestion # 0 /\ ed.testResults # None) =>
       ResultsOf(ed.testResults[1].testCases, ed.currentQuestion)
  /\ \A q \in Questions :
       (localStorage[q] # None /\ GetCacheData(localStorage, q)[1].testResults # None) =>
         ResultsOf(GetCacheData(localStorage, q)[1].testResults[1].testCases, q)
  /\ \A j \in 1..Len(submissionsCol) :
       ResultsOf(submissionsCol[j].testCasesResults, submissionsCol[j].questionId)

\* C23: every Submission row holds results that an execution of the row's own code
\* produced: its code, status, score and testCasesResults are those of one completed
\* execution
C23_ResultsOfStoredCode ==
  \A j \in 1..Len(submissionsCol) : RowRan(submissionsCol[j]) \in ran

\* C24: while the editor stays mounted, no step other than Restart Session makes
\* timeRemaining larger than it was
C24_TimeNeverIncreases ==
  [][ ( /\ route = "code" /\ route' = "code"
        /\ ed.timeRemaining # None /\ ed'.timeRemaining # None
        /\ ~RestartSession )
      => ed'.timeRemaining[1] <= ed.timeRemaining[1] ]_vars

\* the last question has been submitted and its review built, the editor still mounted
AfterFinalSubmit ==
  route = "code" /\ (ed.assessmentReview # None \/ (sub # None /\ sub[1].pc = "review"))

NoEntries(ls) == \A q \in Questions : ls[q] = None

\* the timer's interval fires with one second left
TimeUp ==
  /\ route = "code" /\ ed.timeRemaining = Some(1)
  /\ now' = now + TickMs /\ acts' = acts

\* C25: once the last question is submitted and the cache is empty, it stays empty on
\* every step that is not a click or an edit of the user in the editor (ticks,
\* re-renders, closing the review, leaving the page); and the step in which the time
\* runs out leaves no entry under the current key
C25_ClearedCacheStaysCleared ==
  [][ /\ ( /\ AfterFinalSubmit /\ NoEntries(localStorage)
           /\ ~(Edit \/ SaveProgress \/ ResetCode \/ RestartSession \/ QuestionChange
                 \/ RunStart \/ RunResponse) )
         => NoEntries(localStorage')
      /\ (TimeUp /\ cacheKeyRef # 0) => localStorage'[cacheKeyRef] = None ]_vars

\* C26: the totalScore of a review of N >= 1 questions lies between 0 and 100, and it
\* is 100 exactly when every question is accepted
C26_TotalScoreRange ==
  (sub # None /\ sub[1].pc = "review" /\ sub[1].review[1].totalQuestions >= 1) =>
    LET review == sub[1].review[1]
    IN  /\ review.totalScore \in 0..100
        /\ review.totalScore = 100 <=>
             \A i \in 1..review.totalQuestions : review.items[i].status = "accepted"

\* C27: a Submit trigger that arrives while a Submit is in progress writes no row: every
\* new Submission row is the one row written when addDoc of the Submit in progress
\* resolves
C27_NoSecondRow ==
  [][ Len(submissionsCol') > Len(submissionsCol) =>
        /\ Len(submissionsCol') = Len(submissionsCol) + 1
        /\ sub # None /\ sub[1].pc = "addDoc"
        /\ sub' = None \/ sub'[1].pc = "review" ]_vars

\* an accepted result has at least one test case and score 100
AcceptedSound(status, totalTests, score) ==
  ToLowerCase(status) = "accepted" => (totalTests >= 1 /\ score = 100)

\* the results held by the editor e, by the cache ls and by the rows col
ResultsSound(e, ls, col) ==
  /\ e.testResults # None =>
       AcceptedSound(e.testResults[1].status, e.testResults[1].totalTests,
                     e.testResults[1].score)
  /\ \A q \in DOMAIN ls :
       (ls[q] # None /\ GetCacheData(ls, q)[1].testResults # None) =>
         LET tr == GetCacheData(ls, q)[1].testResults[1]
         IN  AcceptedSound(tr.status, tr.totalTests, tr.score)
  /\ \A j \in 1..Len(col) : AcceptedSound(col[j].status, col[j].totalTests, col[j].score)

\* the user asks for a Run while the question displayed has no test cases
RunOfNoTests ==
  /\ RunStart
  /\ Trim(ed.code) # <<>> /\ Len(Question(ed.currentQuestion).testCases) = 0

C29_RouteProtection ==
  \A adminOnly \in BOOLEAN :
    /\ ProtectedRoute(adminOnly) = "children" =>
         /\ ~loading
         /\ user # None
         /\ adminOnly => (userProfile # None /\ userProfile[1].role = "admin")
    /\ loading => ProtectedRoute(adminOnly) = "LoadingSpinner"
    /\ (~loading /\ user = None) => ProtectedRoute(adminOnly) = "/login"
    /\ (~loading /\ user # None /\ adminOnly /\ ~isAdmin) => ProtectedRoute(adminOnly) = "/"

\* C30: user and userProfile are both null or both set with the same uid; an account
\* without a profile document never becomes the user; and once Firebase has no user and
\* every call of the callback has ended, both are null.
C30_UserAndProfile ==
  /\ (user = None) <=> (userProfile = None)
  /\ user # None => userProfile[1].uid = user[1]
  /\ user # None => Profile(user[1]) # None
  /\ (authUser = None /\ authCalls = <<>>) => (user = None /\ userProfile = None)

====
